---- MODULE Spec2Model ----
(***************************************************************************)
(* Model of the Mirakl XML -> nested JSON template mapper                  *)
(* (src/transformer.py).                                                   *)
(*                                                                         *)
(* Texts are sequences of one-character strings, so that strip(), upper(), *)
(* the numeric regular expression and the formatting of amounts are        *)
(* computed character by character.  Python's Decimal is an exact          *)
(* sign/coefficient/exponent triple whose coefficient is a sequence of     *)
(* decimal digits (most significant first); the arithmetic context is the  *)
(* default one (precision 28, ROUND_HALF_EVEN).  An XML element is a       *)
(* record [tag, text, kids] with kids the sequence of child elements in    *)
(* document order.                                                         *)
(***************************************************************************)
EXTENDS Integers, Sequences, FiniteSets, TLC

VARIABLES
    xml_text,    \* argument of map_mirakl_xml_to_template: the document
    mode,        \* argument of map_mirakl_xml_to_template: "order" / "refund"
    localtz,     \* UTC offset, in minutes, of the host's local time zone
    pc,          \* position of the mapper call: "call" -> "done"
    result,      \* outcome of the mapper call: [exc, value]
    loc,         \* the locals of the mapper call (dialect used, extracted fields)
    values,      \* argument of _sum_amounts_str: list of amount texts
    abs_value,   \* argument of _sum_amounts_str
    spc,         \* position of the _sum_amounts_str call: "call" -> "done"
    sresult,     \* outcome of the _sum_amounts_str call: [exc, value]
    heap,        \* the dict objects json.loads has created, by object id
    calls,       \* per caller: its mapper call in progress and what it holds
    ncalls,      \* number of mapper calls begun by the callers
    cfg,         \* process: the parsed config.json
    input_date,  \* process: its argument input_date
    files,       \* process: the sorted glob of input files and what they hold
    fs,          \* the files below the output root: path -> content
    scan,        \* process: position in its loops, and its local filters
    stats,       \* process: its local stats
    per_folder_hits, \* process: its local per_folder_hits
    req,         \* a GET /si-log-extract/{anything}: its position and response
    dec,         \* a call of _to_decimal: its argument, position and outcome
    datecall,    \* a call of the date helpers: its argument, position and outcomes
    findcall,    \* a call of _find_first and _find_all: arguments, position, outcomes
    gcs          \* a run of a bucket bridge: inputs, position, bucket and mirror

mapVars == <<xml_text, mode, pc, result, loc>>
sumVars == <<values, abs_value, spc, sresult>>
callsVars == <<heap, calls, ncalls>>
scanVars == <<cfg, input_date, files, fs, scan, stats, per_folder_hits>>
apiVars == <<req>>
decVars == <<dec>>
dateVars == <<datecall>>
findVars == <<findcall>>
gcsVars == <<gcs>>
vars == <<xml_text, mode, localtz, pc, result, loc, values, abs_value, spc, sresult,
          heap, calls, ncalls, cfg, input_date, files, fs, scan, stats, per_folder_hits,
          req, dec, datecall, findcall, gcs>>

(***************************************************************************)
(* Characters and texts                                                    *)
(***************************************************************************)
DigitChars == <<"0", "1", "2", "3", "4", "5", "6", "7", "8", "9">>
LowerChars == <<"a", "b", "c", "d", "e", "f", "g", "h", "i", "j", "k", "l", "m",
                "n", "o", "p", "q", "r", "s", "t", "u", "v", "w", "x", "y", "z">>
UpperChars == <<"A", "B", "C", "D", "E", "F", "G", "H", "I", "J", "K", "L", "M",
                "N", "O", "P", "Q", "R", "S", "T", "U", "V", "W", "X", "Y", "Z">>
Whitespace == {" ", "\t", "\n", "\r"}

Range(s) == {s[i] : i \in DOMAIN s}
Max(a, b) == IF a >= b THEN a ELSE b
Min(a, b) == IF a <= b THEN a ELSE b

IsDigit(c) == c \in Range(DigitChars)
DigitVal(c) == (CHOOSE i \in 1..10 : DigitChars[i] = c) - 1
DigitChar(d) == DigitChars[d + 1]

\* el.text of an element without text (None)
NoText == <<"None">>

\* str.strip()
RECURSIVE LStrip(_)
LStrip(s) == IF s # <<>> /\ Head(s) \in Whitespace THEN LStrip(Tail(s)) ELSE s
RECURSIVE RStrip(_)
RStrip(s) == IF s # <<>> /\ s[Len(s)] \in Whitespace
             THEN RStrip(SubSeq(s, 1, Len(s) - 1)) ELSE s
Strip(s) == RStrip(LStrip(s))

\* str.upper()
UpperChar(c) == IF c \in Range(LowerChars)
                THEN UpperChars[CHOOSE i \in 1..26 : LowerChars[i] = c] ELSE c
Upper(s) == [i \in DOMAIN s |-> UpperChar(s[i])]

\* str.isdigit() (false for the empty text)
AllDigits(s) == s # <<>> /\ \A i \in DOMAIN s : IsDigit(s[i])

(***************************************************************************)
(* Unbounded naturals as digit sequences (Python int / Decimal coefficient)*)
(***************************************************************************)
RECURSIVE StripZ(_)
StripZ(c) == IF Len(c) > 1 /\ c[1] = 0 THEN StripZ(Tail(c))
             ELSE IF c = <<>> THEN <<0>> ELSE c
Zeros(k) == [i \in 1..k |-> 0]
PadLeft(c, n) == Zeros(n - Len(c)) \o c
IsZero(c) == \A i \in DOMAIN c : c[i] = 0

\* -1, 0, 1 as a < b, a = b, a > b (a, b without leading zeros)
RECURSIVE CmpSame(_, _, _)
CmpSame(a, b, i) == IF i > Len(a) THEN 0
                    ELSE IF a[i] < b[i] THEN -1
                    ELSE IF a[i] > b[i] THEN 1
                    ELSE CmpSame(a, b, i + 1)
CmpDigits(a, b) ==
    CmpSame(PadLeft(a, Max(Len(a), Len(b))), PadLeft(b, Max(Len(a), Len(b))), 1)

RECURSIVE AddCarry(_, _, _)
AddCarry(a, b, i) == IF i > Len(a) THEN 0
                     ELSE (a[i] + b[i] + AddCarry(a, b, i + 1)) \div 10
\* a + b for a, b of one length
AddSame(a, b) ==
    StripZ(<<AddCarry(a, b, 1)>>
           \o [i \in 1..Len(a) |-> (a[i] + b[i] + AddCarry(a, b, i + 1)) % 10])
AddDigits(a, b) ==
    AddSame(PadLeft(a, Max(Len(a), Len(b))), PadLeft(b, Max(Len(a), Len(b))))

RECURSIVE SubBorrow(_, _, _)
SubBorrow(a, b, i) == IF i > Len(a) THEN 0
                      ELSE IF a[i] - b[i] - SubBorrow(a, b, i + 1) < 0 THEN 1 ELSE 0
\* a - b for a >= b
SubSame(a, b) ==
    StripZ([i \in 1..Len(a) |-> (a[i] - b[i] - SubBorrow(a, b, i + 1) + 10) % 10])
SubDigits(a, b) ==
    SubSame(PadLeft(a, Max(Len(a), Len(b))), PadLeft(b, Max(Len(a), Len(b))))

\* decimal digits of a small natural
RECURSIVE NatDigits(_)
NatDigits(n) == IF n < 10 THEN <<n>> ELSE NatDigits(n \div 10) \o <<n % 10>>
\* value of a short digit sequence
RECURSIVE DigitsNat(_)
DigitsNat(c) == IF c = <<>> THEN 0
                ELSE 10 * DigitsNat(SubSeq(c, 1, Len(c) - 1)) + c[Len(c)]
TextDigits(s) == [i \in DOMAIN s |-> DigitVal(s[i])]
DigitsText(c) == [i \in DOMAIN c |-> DigitChar(c[i])]

(***************************************************************************)
(* Decimal (decimal.Decimal under the default context)                     *)
(***************************************************************************)
\* precision of decimal's default context, used by +, abs() and quantize()
prec == 28

NoDecimal == [none |-> TRUE]
Dec(sign, int, exp) == [sign |-> sign, int |-> int, exp |-> exp]

RECURSIVE DigitRun(_, _)
DigitRun(s, i) == IF i <= Len(s) /\ IsDigit(s[i]) THEN 1 + DigitRun(s, i + 1) ELSE 0

\* _NUM_RE.match(s): ^[-+]?\d*\.?\d+(?:[eE][-+]?\d+)?$ ; the groups of a match
\* are the sign, the digits before and after the point and the exponent.
\* The scan: the mantissa starts at p1 with a digits, then a point and b
\* digits (b = 0 when there is no point or no digit after it); what follows
\* starts at p2 and is the exponent, its digits at p3.
NumExponent(s, p1, a, b, p2, p3) ==
    LET mantOk == b >= 1 \/ a >= 1
        hasExp == p2 <= Len(s)
        expOk  == ~hasExp \/ (/\ s[p2] \in {"e", "E"}
                              /\ DigitRun(s, p3) >= 1
                              /\ p3 + DigitRun(s, p3) = Len(s) + 1)
    IN  [ok      |-> mantOk /\ expOk,
         neg     |-> s # <<>> /\ s[1] = "-",
         intpart |-> SubSeq(s, p1, p1 + a - 1),
         fracpart|-> IF b >= 1 THEN SubSeq(s, p1 + a + 1, p1 + a + b) ELSE <<>>,
         exp     |-> IF hasExp /\ mantOk /\ expOk
                     THEN (IF s[p2 + 1] = "-" THEN -1 ELSE 1)
                          * DigitsNat(TextDigits(SubSeq(s, p3, Len(s))))
                     ELSE 0]
NumAfter(s, p1, a, b, p2) ==
    NumExponent(s, p1, a, b, p2,
                IF p2 + 1 <= Len(s) /\ s[p2 + 1] \in {"-", "+"} THEN p2 + 2 ELSE p2 + 1)
NumFraction(s, p1, a, b) ==
    NumAfter(s, p1, a, b, IF b >= 1 THEN p1 + a + 1 + b ELSE p1 + a)
NumMantissa(s, p1, a) ==
    NumFraction(s, p1, a, IF p1 + a <= Len(s) /\ s[p1 + a] = "."
                          THEN DigitRun(s, p1 + a + 1) ELSE 0)
NumSigned(s, p1) == NumMantissa(s, p1, DigitRun(s, p1))
_NUM_RE(s) == NumSigned(s, IF s # <<>> /\ s[1] \in {"-", "+"} THEN 2 ELSE 1)

\* Decimal(s) for a text the regular expression accepts: exact, no rounding
DecimalOf(m) ==
    Dec(IF m.neg THEN 1 ELSE 0,
        StripZ(TextDigits(m.intpart \o m.fracpart)),
        m.exp - Len(m.fracpart))

\* the value of _to_decimal for the stripped text s and its match m
DecimalOrNone(s, m) == IF s = <<>> \/ ~m.ok THEN NoDecimal ELSE DecimalOf(m)
\* variant: the text is matched as given, without strip()
to_decimal_untrimmed(s0) == DecimalOrNone(s0, _NUM_RE(s0))
_to_decimal(s0) == DecimalOrNone(Strip(s0), _NUM_RE(Strip(s0)))

\* Decimal._rescale(exp, rounding): the same value at exponent exp, rounded
Rescale(d, exp, rounding) ==
    IF d.exp >= exp
    THEN Dec(d.sign, StripZ(d.int \o Zeros(d.exp - exp)), exp)
    ELSE LET n     == Len(d.int)
             k     == exp - d.exp
             kept  == IF k < n THEN SubSeq(d.int, 1, n - k) ELSE <<0>>
             first == IF k <= n THEN d.int[n - k + 1] ELSE 0
             rest  == IF k <= n THEN \E i \in (n - k + 2)..n : d.int[i] # 0
                      ELSE ~IsZero(d.int)
             up    == IF rounding = "ROUND_HALF_UP" THEN first >= 5
                      ELSE first > 5
                           \/ (first = 5 /\ (rest \/ kept[Len(kept)] % 2 = 1))
         IN  Dec(d.sign, IF up THEN AddDigits(kept, <<1>>) ELSE StripZ(kept), exp)

\* Decimal._fix(context): round the coefficient to the context precision;
\* r is the coefficient rounded to prec digits, which a carry makes one longer
FixCarry(r) ==
    IF Len(r.int) > prec
    THEN Dec(r.sign, SubSeq(r.int, 1, Len(r.int) - 1), r.exp + 1)
    ELSE r
Fix(d) ==
    IF Len(d.int) <= prec THEN d
    ELSE FixCarry(Rescale(d, d.exp + Len(d.int) - prec, "ROUND_HALF_EVEN"))

\* Decimal.__add__ under the default context: X and Y are the coefficients
\* at the common exponent e
AddAligned(xsign, X, ysign, Y, e, c) ==
    IF xsign = ysign THEN Dec(xsign, AddDigits(X, Y), e)
    ELSE IF c = 0 THEN Dec(0, <<0>>, e)
    ELSE IF c > 0 THEN Dec(xsign, SubDigits(X, Y), e)
    ELSE Dec(ysign, SubDigits(Y, X), e)
AddAt(xsign, X, ysign, Y, e) == AddAligned(xsign, X, ysign, Y, e, CmpDigits(X, Y))
AddExp(x, y, e) ==
    AddAt(x.sign, StripZ(x.int \o Zeros(x.exp - e)),
          y.sign, StripZ(y.int \o Zeros(y.exp - e)), e)
DecAdd(x, y) == Fix(AddExp(x, y, Min(x.exp, y.exp)))

\* Decimal.__abs__ under the default context
DecAbs(x) == Fix(Dec(0, x.int, x.exp))

\* Decimal.quantize(Decimal('0.01'), rounding=ROUND_HALF_UP): a decimal at
\* exponent -2, or InvalidOperation when the result needs more than prec digits
QuantizeRounded(r) ==
    IF Len(r.int) > prec
    THEN [exc |-> "InvalidOperation", value |-> NoDecimal]
    ELSE [exc |-> "", value |-> r]
Quantize(d) ==
    IF IsZero(d.int) THEN [exc |-> "", value |-> Dec(d.sign, <<0>>, -2)]
    ELSE IF (d.exp + Len(d.int) - 1) - (-2) + 1 > prec
    THEN [exc |-> "InvalidOperation", value |-> NoDecimal]
    ELSE QuantizeRounded(Rescale(d, -2, "ROUND_HALF_UP"))

\* f"{d:.2f}" for a decimal at exponent -2
FormatDigits(sign, c) ==
    (IF sign = 1 THEN <<"-">> ELSE <<>>)
    \o DigitsText(SubSeq(c, 1, Len(c) - 2)) \o <<".">>
    \o DigitsText(SubSeq(c, Len(c) - 1, Len(c)))
Format2f(d) == FormatDigits(d.sign, IF Len(d.int) < 3 THEN PadLeft(d.int, 3) ELSE d.int)

\* if d is not None: total += d
SumStep(total, d) == IF d # NoDecimal THEN DecAdd(total, d) ELSE total
\* the for-loop of _sum_amounts_str and of _sum_texts: total after the
\* entries i..Len(vals)
RECURSIVE SumLoop(_, _, _)
SumLoop(vals, i, total) ==
    IF i > Len(vals) THEN total
    ELSE SumLoop(vals, i + 1, SumStep(total, _to_decimal(vals[i])))

\* if abs_value: total = abs(total)
AbsIf(total, absv) == IF absv THEN DecAbs(total) ELSE total
\* f"{q:.2f}" of the quantized total q, or the exception quantize raised
Render(q) == IF q.exc # "" THEN [exc |-> q.exc, value |-> <<>>]
             ELSE [exc |-> "", value |-> Format2f(q.value)]
\* variant: the absolute value is taken of every entry before it is added
RECURSIVE SumLoopAbsEach(_, _, _)
SumLoopAbsEach(vals, i, total) ==
    IF i > Len(vals) THEN total
    ELSE SumLoopAbsEach(vals, i + 1,
                        IF _to_decimal(vals[i]) # NoDecimal
                        THEN DecAdd(total, DecAbs(_to_decimal(vals[i]))) ELSE total)
sum_abs_each(vals, absv) ==
    Render(Quantize(IF absv THEN SumLoopAbsEach(vals, 1, Dec(0, <<0>>, 0))
                    ELSE SumLoop(vals, 1, Dec(0, <<0>>, 0))))
\* the sum, its magnitude if abs_value, quantized to 0.01 and formatted
_sum_amounts_str(vals, absv) ==
    Render(Quantize(AbsIf(SumLoop(vals, 1, Dec(0, <<0>>, 0)), absv)))

(***************************************************************************)
(* XML helpers (namespace-agnostic)                                        *)
(***************************************************************************)
\* An element: its tag is the pair of namespace and local name that
\* ElementTree writes "{ns}name"; a path is the sequence of the texts between
\* its "/" separators ("/A/B/" is <<"", "A", "B", "">>).
Tag(ns, name) == [ns |-> ns, name |-> name]
El(name, text, kids) == [tag |-> Tag("", name), text |-> text, kids |-> kids]
NoElement == [none |-> TRUE]

_local(tag) == tag.name

\* variant: the tag is compared whole, namespace included
children_by_tag(el, name) == SelectSeq(el.kids, LAMBDA ch : ch.tag = Tag("", name))
_children_by_local(el, name) == SelectSeq(el.kids, LAMBDA ch : _local(ch.tag) = name)

\* str.strip("/")
RECURSIVE LStripSlash(_)
LStripSlash(s) == IF s # <<>> /\ Head(s) = "/" THEN LStripSlash(Tail(s)) ELSE s
RECURSIVE RStripSlash(_)
RStripSlash(s) == IF s # <<>> /\ s[Len(s)] = "/"
                  THEN RStripSlash(SubSeq(s, 1, Len(s) - 1)) ELSE s
\* str.split("/"): the texts between the slashes, empty ones included
RECURSIVE SplitFrom(_, _, _)
SplitFrom(s, i, seg) ==
    IF i > Len(s) THEN <<seg>>
    ELSE IF s[i] = "/" THEN <<seg>> \o SplitFrom(s, i + 1, <<>>)
    ELSE SplitFrom(s, i + 1, Append(seg, s[i]))
\* path.strip().strip("/").split("/") of a path given as a text
SplitPath(path) == SplitFrom(RStripSlash(LStripSlash(Strip(path))), 1, <<>>)

\* segs = [s for s in ... if s], of the path already split at its slashes
Segs(path) == SelectSeq(path, LAMBDA sg : Len(sg) > 0)

RECURSIVE Extend(_, _, _)
Extend(cur, seg, i) == IF i > Len(cur) THEN <<>>
                       ELSE _children_by_local(cur[i], seg) \o Extend(cur, seg, i + 1)

\* the loop over segs shared by _find_first and _find_all: the matched nodes,
\* <<>> as soon as one segment matches nothing
RECURSIVE FindLoop(_, _)
FindLoop(cur, segs) ==
    IF segs = <<>> THEN cur
    ELSE LET nxt == Extend(cur, Head(segs), 1)
         IN  IF nxt = <<>> THEN <<>> ELSE FindLoop(nxt, Tail(segs))

_find_first(root, path) ==
    LET cur == FindLoop(<<root>>, Segs(path))
    IN  IF cur = <<>> THEN NoElement ELSE cur[1]

_find_all(root, path) == FindLoop(<<root>>, Segs(path))

_text(el) == IF el # NoElement
             THEN Strip(IF el.text = NoText THEN <<>> ELSE el.text)
             ELSE <<>>

\* bool(el) of an ElementTree element: it has at least one child
Truthy(el) == el # NoElement /\ Len(el.kids) # 0
\* a or b
ElOr(a, b) == IF Truthy(a) THEN a ELSE b

(***************************************************************************)
(* Python int of unbounded size: sign and magnitude                        *)
(***************************************************************************)
PyInt(neg, mag) == [neg |-> neg /\ ~IsZero(mag), mag |-> StripZ(mag)]
IntOf(n) == PyInt(n < 0, NatDigits(IF n < 0 THEN -n ELSE n))
Zero == IntOf(0)

IntAddCmp(x, y, c) ==
    IF x.neg = y.neg THEN PyInt(x.neg, AddDigits(x.mag, y.mag))
    ELSE IF c = 0 THEN Zero
    ELSE IF c > 0 THEN PyInt(x.neg, SubDigits(x.mag, y.mag))
    ELSE PyInt(y.neg, SubDigits(y.mag, x.mag))
IntAdd(x, y) == IntAddCmp(x, y, CmpDigits(x.mag, y.mag))

RECURSIVE MulCarry(_, _, _)
MulCarry(c, k, i) == IF i > Len(c) THEN 0
                     ELSE (c[i] * k + MulCarry(c, k, i + 1)) \div 10
\* x * k for a natural k < 10^8
IntMulSmall(x, k) ==
    PyInt(x.neg, NatDigits(MulCarry(x.mag, k, 1))
                 \o [i \in 1..Len(x.mag) |-> (x.mag[i] * k + MulCarry(x.mag, k, i + 1)) % 10])

\* floor(c / k) of a digit sequence c by a natural k < 10^8, as a natural that
\* fits a machine integer: long division with the running remainder
RECURSIVE DivRem(_, _, _)
DivRem(c, k, i) == IF i = 0 THEN 0 ELSE (DivRem(c, k, i - 1) * 10 + c[i]) % k
RECURSIVE DivQuot(_, _, _)
DivQuot(c, k, i) == IF i = 0 THEN 0
                    ELSE DivQuot(c, k, i - 1) * 10 + (DivRem(c, k, i - 1) * 10 + c[i]) \div k
DivSmall(c, k) == DivQuot(c, k, Len(c))

(***************************************************************************)
(* Calendar (datetime): proleptic Gregorian, days counted from 1970-01-01  *)
(***************************************************************************)
IsLeap(y) == y % 4 = 0 /\ (y % 100 # 0 \/ y % 400 = 0)
DaysInMonth(y, m) == IF m = 2 THEN (IF IsLeap(y) THEN 29 ELSE 28)
                     ELSE IF m \in {4, 6, 9, 11} THEN 30 ELSE 31
\* datetime accepts years 1..9999
ValidDate(y, m, d) == y \in 1..9999 /\ m \in 1..12 /\ d >= 1 /\ d <= DaysInMonth(y, m)

DaysFromCivil(y, m, d) ==
    LET yy  == IF m <= 2 THEN y - 1 ELSE y
        era == yy \div 400
        yoe == yy - era * 400
        doy == (153 * (IF m > 2 THEN m - 3 ELSE m + 9) + 2) \div 5 + d - 1
        doe == yoe * 365 + yoe \div 4 - yoe \div 100 + doy
    IN  era * 146097 + doe - 719468

\* the civil date of a day count, by its era (400 years), day of era, year
\* of era, day of year and month counted from March
CivilMonth(era, yoe, doy, mp, m) ==
    [y |-> yoe + era * 400 + (IF m <= 2 THEN 1 ELSE 0),
     m |-> m,
     d |-> doy - (153 * mp + 2) \div 5 + 1]
CivilMp(era, yoe, doy, mp) ==
    CivilMonth(era, yoe, doy, mp, IF mp < 10 THEN mp + 3 ELSE mp - 9)
CivilDoy(era, yoe, doy) == CivilMp(era, yoe, doy, (5 * doy + 2) \div 153)
CivilYoe(era, doe, yoe) ==
    CivilDoy(era, yoe, doe - (365 * yoe + yoe \div 4 - yoe \div 100))
CivilDoe(era, doe) ==
    CivilYoe(era, doe, (doe - doe \div 1460 + doe \div 36524 - doe \div 146096) \div 365)
CivilEra(z, era) == CivilDoe(era, z - era * 146097)
CivilFromDays(z0) == CivilEra(z0 + 719468, (z0 + 719468) \div 146097)

\* int(dt.strftime("%Y%m%d"))
YmdInt(y, m, d) == IntOf(y * 10000 + m * 100 + d)

\* int(dt.timestamp() * 1000) of the instant days/sod (second of the day) at
\* UTC offset off minutes
Millis(secs) == PyInt(secs.neg, secs.mag \o <<0, 0, 0>>)
EpochMs(days, sod, off) ==
    Millis(IntAdd(IntMulSmall(IntOf(days), 86400), IntOf(sod - off * 60)))

Num(s, i, j) == DigitsNat(TextDigits(SubSeq(s, i, j)))
DigitsAt(s, i, j) == j <= Len(s) /\ \A k \in i..j : IsDigit(s[k])

\* s.replace("Z", "+00:00")
RECURSIVE ReplaceZ(_)
ReplaceZ(s) == IF s = <<>> THEN <<>>
               ELSE (IF Head(s) = "Z" THEN <<"+", "0", "0", ":", "0", "0">> ELSE <<Head(s)>>)
                    \o ReplaceZ(Tail(s))

\* datetime.fromisoformat(s) for the extended forms YYYY-MM-DD,
\* YYYY-MM-DD<sep>HH:MM and YYYY-MM-DD<sep>HH:MM:SS, the time optionally
\* followed by an offset +HH:MM or -HH:MM, and for the basic form
\* YYYYMMDD<sep>HH; any other text is a ValueError.
\* tz tells whether the datetime is aware, off is its offset in minutes.
IsoDateOk(s) ==
    /\ DigitsAt(s, 1, 4) /\ DigitsAt(s, 6, 7) /\ DigitsAt(s, 9, 10)
    /\ s[5] = "-" /\ s[8] = "-"
    /\ ValidDate(Num(s, 1, 4), Num(s, 6, 7), Num(s, 9, 10))
IsoHmOk(s) ==
    /\ DigitsAt(s, 12, 13) /\ DigitsAt(s, 15, 16) /\ s[14] = ":"
    /\ Num(s, 12, 13) < 24 /\ Num(s, 15, 16) < 60
IsoSecOk(s) == DigitsAt(s, 18, 19) /\ Num(s, 18, 19) < 60
IsoTzOk(s, p) ==
    /\ Len(s) = p + 5 /\ s[p] \in {"+", "-"} /\ DigitsAt(s, p + 1, p + 2)
    /\ s[p + 3] = ":" /\ DigitsAt(s, p + 4, p + 5)
    /\ Num(s, p + 1, p + 2) < 24 /\ Num(s, p + 4, p + 5) < 60
\* hasT, hasS, hasTz: the text has a time, seconds, an offset (at position p)
IsoFields(s, hasT, hasS, hasTz, p) ==
    IF ~(IsoDateOk(s)
         /\ (hasT => IsoHmOk(s) /\ (hasS => IsoSecOk(s)) /\ (hasTz => IsoTzOk(s, p))))
    THEN [ok |-> FALSE]
    ELSE [ok  |-> TRUE,
          y   |-> Num(s, 1, 4), m |-> Num(s, 6, 7), d |-> Num(s, 9, 10),
          sod |-> IF hasT THEN Num(s, 12, 13) * 3600 + Num(s, 15, 16) * 60
                               + (IF hasS THEN Num(s, 18, 19) ELSE 0)
                  ELSE 0,
          tz  |-> hasT /\ hasTz,
          off |-> IF hasT /\ hasTz
                  THEN (IF s[p] = "-" THEN -1 ELSE 1)
                       * (Num(s, p + 1, p + 2) * 60 + Num(s, p + 4, p + 5))
                  ELSE 0]
IsoTime(s, hasS, p) == IsoFields(s, Len(s) > 10, hasS, Len(s) >= p, p)
IsoSeconds(s, hasS) == IsoTime(s, hasS, IF hasS THEN 20 ELSE 17)
\* the basic form YYYYMMDD<sep>HH, <sep> any one character (a digit too)
IsoBasicHour(s) ==
    IF DigitsAt(s, 1, 8) /\ DigitsAt(s, 10, 11)
       /\ ValidDate(Num(s, 1, 4), Num(s, 5, 6), Num(s, 7, 8)) /\ Num(s, 10, 11) < 24
    THEN [ok  |-> TRUE,
          y   |-> Num(s, 1, 4), m |-> Num(s, 5, 6), d |-> Num(s, 7, 8),
          sod |-> Num(s, 10, 11) * 3600, tz |-> FALSE, off |-> 0]
    ELSE [ok |-> FALSE]
fromisoformat(s) ==
    IF Len(s) = 11 /\ DigitsAt(s, 1, 8) THEN IsoBasicHour(s)
    ELSE IsoSeconds(s, IsoHmOk(s) /\ Len(s) >= 17 /\ s[17] = ":")

\* the ISO branch of _to_epoch_ms; a naive datetime is read in local time
EpochOfDatetime(dt, tz) ==
    IF ~dt.ok THEN Zero
    ELSE EpochMs(DaysFromCivil(dt.y, dt.m, dt.d), dt.sod, IF dt.tz THEN dt.off ELSE tz)
IsoEpochMs(s, tz) == EpochOfDatetime(fromisoformat(ReplaceZ(s)), tz)

\* _to_epoch_ms for the stripped text s
EpochOfText(s, tz) ==
    IF s = <<>> THEN Zero
    ELSE IF AllDigits(s) /\ Len(s) >= 13 THEN PyInt(FALSE, TextDigits(SubSeq(s, 1, 13)))
    ELSE IF AllDigits(s) /\ Len(s) = 10 THEN PyInt(FALSE, TextDigits(s) \o <<0, 0, 0>>)
    ELSE IF AllDigits(s) /\ Len(s) = 8
    THEN (IF ValidDate(Num(s, 1, 4), Num(s, 5, 6), Num(s, 7, 8))
          THEN EpochMs(DaysFromCivil(Num(s, 1, 4), Num(s, 5, 6), Num(s, 7, 8)), 0, 0)
          ELSE Zero)
    ELSE IsoEpochMs(s, tz)
_to_epoch_ms(iso_str, tz) == EpochOfText(Strip(iso_str), tz)

\* the date, as YYYYMMDD, of the UTC instant of secs seconds after the epoch
YmdOf(c) == YmdInt(c.y, c.m, c.d)
UtcYmd(secs) == YmdOf(CivilFromDays(DivSmall(secs, 86400)))

\* the ISO branch of _to_yyyymmdd_int
YmdOfDatetime(dt) == IF dt.ok THEN YmdInt(dt.y, dt.m, dt.d) ELSE Zero
\* _to_yyyymmdd_int for the stripped text s
YmdOfText(s) ==
    IF s = <<>> THEN Zero
    ELSE IF AllDigits(s) /\ Len(s) = 8 THEN PyInt(FALSE, TextDigits(s))
    ELSE IF AllDigits(s) /\ Len(s) >= 13
    THEN UtcYmd(SubSeq(TextDigits(s), 1, 10))
    ELSE IF AllDigits(s) /\ Len(s) = 10 THEN UtcYmd(TextDigits(s))
    ELSE YmdOfDatetime(fromisoformat(ReplaceZ(s)))
_to_yyyymmdd_int(iso_str) == YmdOfText(Strip(iso_str))

(***************************************************************************)
(* Templates (json.loads of ORDER_TEMPLATE_JSON / REFUND_TEMPLATE_JSON)    *)
(***************************************************************************)
\* a JSON number with a fraction (Python float), by its JSON text
PyFloat(text) == [float |-> text]

ORDER_TEMPLATE_JSON ==
    [InvoiceHeader |->
        [InvoiceNo    |-> <<"6", "5", "8", "2", "6", "2", "3", "2">>,
         Reference1   |-> <<"r", "e", "f">>,
         Interco      |-> <<"1", "2", "3", "4", "5">>,
         DateInvoiced |-> PyInt(FALSE, <<1, 7, 5, 5, 6, 5, 3, 1, 1, 7, 0, 0, 0>>),
         InvoiceType  |-> <<"s", "h", "i", "p", "m", "e", "n", "t">>,
         Shipment     |->
            [ActualShipmentDate |-> PyInt(FALSE, <<1, 7, 5, 5, 6, 5, 3, 1, 1, 7, 0, 0, 0>>),
             NodeType           |-> <<"D", "C">>,
             _ShipNode          |-> <<"S", "N", "0", "0", "1">>,
             ShipmentNo         |-> <<"S", "H", "I", "P", "1", "2", "5">>],
         Order        |->
            [PriceInfo        |-> [Currency                |-> <<"U", "S", "D">>,
                                   EnterpriseCurrency      |-> <<"U", "S", "D">>,
                                   ReportingConversionRate |-> PyFloat(<<"1", ".", "0">>)],
             PersonInfoBillTo |-> [PersonInfoKey |-> <<"2", "0", "2", "5", "0", "1", "0", "3", "0", "8", "1", "6", "1", "7", "7", "8", "5", "6", "0", "7", "2", "1", "9", "5">>]],
         LineDetails  |->
            [TotalLines |-> <<"1">>,
             LineDetail |-> <<
                [LineCharges |->
                    [LineCharge |-> <<
                        [Lookups      |-> [DiscountAmtABS |-> <<"5", ".", "0", "0">>,
                                           ChargeTypeDesc |-> <<"d", "e", "s", "c">>,
                                           LineChargeType |-> <<"E">>],
                         ChargeAmount |-> <<"1", "0", ".", "0", "0">>] >>],
                 OrderLine   |->
                    [LineType |-> <<"m", "r", "k", "l">>,
                     Extn     |-> [ExtnMiraklOrderID |-> <<"A", "P", "0", "3", "5", "4", "2", "3", "0", "9", "-", "2", "2", "5", "1", "1", "2", "4", "2", "2", "-", "A">>]]] >>],
         CollectionDetails |->
            [CollectionDetail |-> << [AmountCollected |-> <<"2", "1", "7", ".", "6", "6">>] >>]]]

REFUND_TEMPLATE_JSON ==
    [InvoiceHeader |->
        [InvoiceNo    |-> <<"I", "N", "V", "1", "2", "3">>,
         Reference1   |-> <<"R", "E", "F", "U", "N", "D", "-", "1", "2", "3", "4", "5">>,
         Interco      |-> <<"T", "O">>,
         DateInvoiced |-> IntOf(20250725),
         InvoiceType  |-> <<"C", "R", "E", "D", "I", "T", "_", "M", "E", "M", "O">>,
         Shipment     |->
            [ActualShipmentDate |-> IntOf(20250720),
             NodeType           |-> <<"D", "C">>,
             _ShipNode          |-> <<"S", "N", "0", "0", "1">>,
             ShipmentNo         |-> <<"S", "H", "I", "P", "1", "2", "3">>],
         Order        |->
            [PriceInfo        |-> [Currency                |-> <<"U", "S", "D">>,
                                   EnterpriseCurrency      |-> <<"U", "S", "D">>,
                                   ReportingConversionRate |-> IntOf(1)],
             PersonInfoBillTo |-> [PersonInfoKey |-> <<"P", "1", "2", "3", "4", "5">>]],
         LineDetails  |->
            [TotalLines |-> <<"1">>,
             LineDetail |-> <<
                [OrderLine |->
                    [LineType   |-> <<"m", "r", "k", "l">>,
                     Extn       |-> [ExtnMiraklOrderID |-> <<"M", "O", "1", "2", "3", "4", "5">>],
                     References |->
                        [Reference |-> << [Name |-> <<"R", "O", "-", "I", "D">>, Value |-> <<"M", "R", "K", "L", "-", "R", "E", "F", "-", "9", "9", "9", "9", "9">>] >>]]] >>],
         CollectionDetails |->
            [CollectionDetail |-> << [AmountCollected |-> <<"1", "0", "0", ".", "0", "0">>] >>]]]

\* the locals of a mapper call; a local the call never binds is <<>>
NoLocals == [dialect     |-> "",
             amount_str  |-> <<>>,
             currency    |-> <<>>,
             customer_id |-> <<>>,
             order_id    |-> <<>>,
             refund_id   |-> <<>>,
             tx_num      |-> <<>>,
             tx_date_iso |-> <<>>]
NoValue == [none |-> TRUE]
Raise(exc, dialect) == [exc |-> exc, value |-> NoValue,
                        loc |-> [NoLocals EXCEPT !.dialect = dialect]]
Return(out, locals) == [exc |-> "", value |-> out, loc |-> locals]

(***************************************************************************)
(* Sterling invoice mappers                                                *)
(***************************************************************************)
_invoice_header(root) ==
    ElOr(_find_first(root, <<"InvoiceDetail", "InvoiceHeader">>),
         _find_first(root, <<"InvoiceHeader">>))

\* [f(e) for e in els]
Texts(els) == [i \in DOMAIN els |-> _text(els[i])]

_invoice_amounts(header) ==
    Texts(_find_all(header, <<"CollectionDetails", "CollectionDetail", "AmountCollected">>))

_invoice_currency(header) == _text(_find_first(header, <<"Order", "PriceInfo", "Currency">>))

\* variant: PersonInfoKey is looked up directly under the header
customer_id_under_header(header) == _text(_find_first(header, <<"PersonInfoKey">>))
_invoice_customer_id(header) ==
    _text(_find_first(header, <<"Order", "PersonInfoBillTo", "PersonInfoKey">>))

\* variant: the first order id of any LineDetail
order_id_any_line(header) ==
    _text(_find_first(header, <<"LineDetails", "LineDetail", "OrderLine", "Extn", "ExtnMiraklOrderID">>))
_invoice_order_id_first_line(header) ==
    LET ld    == _find_all(header, <<"LineDetails", "LineDetail">>)
        first == IF ld # <<>> THEN ld[1] ELSE NoElement
    IN  IF first # NoElement
        THEN _text(_find_first(first, <<"OrderLine", "Extn", "ExtnMiraklOrderID">>))
        ELSE <<>>

_invoice_invoice_no(header) == _text(_find_first(header, <<"InvoiceNo">>))

\* variant: the shipment date is never preferred
tx_date_invoiced_only(header) == _text(_find_first(header, <<"DateInvoiced">>))
_invoice_tx_date_pref_ship(header) ==
    LET ship == _text(_find_first(header, <<"Shipment", "ActualShipmentDate">>))
    IN  IF ship # <<>> THEN ship ELSE _text(_find_first(header, <<"DateInvoiced">>))

_invoice_type(header) == _text(_find_first(header, <<"InvoiceType">>))

\* the for-loop of _invoice_refund_reference_value over refs[i..]
RECURSIVE RefLoop(_, _)
RefLoop(refs, i) ==
    IF i > Len(refs) THEN <<>>
    ELSE LET name == Upper(Strip(_text(_find_first(refs[i], <<"Name">>))))
         IN  IF name \in {<<"R", "O", "-", "I", "D">>, <<"M", "R", "K", "L", "_", "R", "E", "F", "U", "N", "D", "_", "I", "D">>}
             THEN _text(_find_first(refs[i], <<"Value">>))
             ELSE RefLoop(refs, i + 1)

\* variant: only the references of the first LineDetail are scanned
reference_value_first_line(header) ==
    IF _find_all(header, <<"LineDetails", "LineDetail">>) = <<>> THEN <<>>
    ELSE RefLoop(_find_all(_find_all(header, <<"LineDetails", "LineDetail">>)[1],
                           <<"OrderLine", "References", "Reference">>), 1)
_invoice_refund_reference_value(header) ==
    RefLoop(_find_all(header, <<"LineDetails", "LineDetail", "OrderLine",
                               "References", "Reference">>), 1)

\* the template filled by _map_invoice_to_order_template from its locals l
InvoiceOrderOut(l, tz) ==
    [ORDER_TEMPLATE_JSON EXCEPT
        !.InvoiceHeader.InvoiceNo = l.tx_num,
        !.InvoiceHeader.DateInvoiced = _to_epoch_ms(l.tx_date_iso, tz),
        !.InvoiceHeader.InvoiceType = <<"s", "h", "i", "p", "m", "e", "n", "t">>,
        !.InvoiceHeader.Shipment.ActualShipmentDate = _to_epoch_ms(l.tx_date_iso, tz),
        !.InvoiceHeader.Shipment.NodeType = <<"D", "C">>,
        !.InvoiceHeader.Shipment._ShipNode = <<"S", "N", "0", "0", "1">>,
        !.InvoiceHeader.Shipment.ShipmentNo = l.order_id,
        !.InvoiceHeader.Order.PriceInfo.Currency = l.currency,
        !.InvoiceHeader.Order.PriceInfo.EnterpriseCurrency = l.currency,
        !.InvoiceHeader.Order.PriceInfo.ReportingConversionRate = PyFloat(<<"1", ".", "0">>),
        !.InvoiceHeader.Order.PersonInfoBillTo.PersonInfoKey = l.customer_id,
        !.InvoiceHeader.LineDetails.TotalLines = <<"1">>,
        !.InvoiceHeader.LineDetails.LineDetail[1].OrderLine.LineType = <<"m", "r", "k", "l">>,
        !.InvoiceHeader.LineDetails.LineDetail[1].OrderLine.Extn.ExtnMiraklOrderID = l.order_id,
        !.InvoiceHeader.CollectionDetails.CollectionDetail[1].AmountCollected = l.amount_str]

\* _map_invoice_to_order_template once the header is found and the amounts
\* are summed (amount is the text, or the exception the sum raised)
InvoiceOrderWith(header, amount, tz) ==
    LET amount_str  == amount.value
        currency    == _invoice_currency(header)
        customer_id == _invoice_customer_id(header)
        order_id    == _invoice_order_id_first_line(header)
        tx_num      == _invoice_invoice_no(header)
        tx_date_iso == _invoice_tx_date_pref_ship(header)
        l == [dialect     |-> "invoice",
              amount_str  |-> amount_str,
              currency    |-> currency,
              customer_id |-> customer_id,
              order_id    |-> order_id,
              refund_id   |-> <<>>,
              tx_num      |-> tx_num,
              tx_date_iso |-> tx_date_iso]
    IN  IF amount.exc # "" THEN Raise(amount.exc, "invoice")
        ELSE Return(InvoiceOrderOut(l, tz), l)
InvoiceOrderFrom(header, tz) ==
    IF header = NoElement
    THEN Return(ORDER_TEMPLATE_JSON, [NoLocals EXCEPT !.dialect = "none"])
    ELSE InvoiceOrderWith(header, _sum_amounts_str(_invoice_amounts(header), FALSE), tz)
_map_invoice_to_order_template(root, tz) == InvoiceOrderFrom(_invoice_header(root), tz)

\* variant: PersonInfoKey is not written, the skeleton's key stays
refund_out_keeps_person_key(l) ==
    [REFUND_TEMPLATE_JSON EXCEPT
        !.InvoiceHeader.InvoiceNo = l.tx_num,
        !.InvoiceHeader.Reference1 =
            IF l.refund_id # <<>> THEN <<"R", "E", "F", "U", "N", "D", "-">> \o l.refund_id ELSE <<>>,
        !.InvoiceHeader.Interco = <<"T", "O">>,
        !.InvoiceHeader.DateInvoiced = _to_yyyymmdd_int(l.tx_date_iso),
        !.InvoiceHeader.InvoiceType = <<"C", "R", "E", "D", "I", "T", "_", "M", "E", "M", "O">>,
        !.InvoiceHeader.Shipment.ActualShipmentDate = _to_yyyymmdd_int(l.tx_date_iso),
        !.InvoiceHeader.Shipment.NodeType = <<"D", "C">>,
        !.InvoiceHeader.Shipment._ShipNode = <<"S", "N", "0", "0", "1">>,
        !.InvoiceHeader.Shipment.ShipmentNo = <<"S", "H", "I", "P", "1", "2", "3">>,
        !.InvoiceHeader.Order.PriceInfo.Currency = l.currency,
        !.InvoiceHeader.Order.PriceInfo.EnterpriseCurrency = l.currency,
        !.InvoiceHeader.Order.PriceInfo.ReportingConversionRate = IntOf(1),
        !.InvoiceHeader.LineDetails.TotalLines = <<"1">>,
        !.InvoiceHeader.LineDetails.LineDetail[1].OrderLine.LineType = <<"m", "r", "k", "l">>,
        !.InvoiceHeader.LineDetails.LineDetail[1].OrderLine.Extn.ExtnMiraklOrderID = <<>>,
        !.InvoiceHeader.LineDetails.LineDetail[1].OrderLine.References.Reference[1].Name =
            <<"R", "O", "-", "I", "D">>,
        !.InvoiceHeader.LineDetails.LineDetail[1].OrderLine.References.Reference[1].Value =
            IF l.refund_id # <<>> THEN <<"M", "R", "K", "L", "-", "R", "E", "F", "-">> \o l.refund_id ELSE <<>>,
        !.InvoiceHeader.CollectionDetails.CollectionDetail[1].AmountCollected = l.amount_str]
\* the template filled by _map_invoice_to_refund_template from its locals l
InvoiceRefundOut(l) ==
    [REFUND_TEMPLATE_JSON EXCEPT
        !.InvoiceHeader.InvoiceNo = l.tx_num,
        !.InvoiceHeader.Reference1 =
            IF l.refund_id # <<>> THEN <<"R", "E", "F", "U", "N", "D", "-">> \o l.refund_id ELSE <<>>,
        !.InvoiceHeader.Interco = <<"T", "O">>,
        !.InvoiceHeader.DateInvoiced = _to_yyyymmdd_int(l.tx_date_iso),
        !.InvoiceHeader.InvoiceType = <<"C", "R", "E", "D", "I", "T", "_", "M", "E", "M", "O">>,
        !.InvoiceHeader.Shipment.ActualShipmentDate = _to_yyyymmdd_int(l.tx_date_iso),
        !.InvoiceHeader.Shipment.NodeType = <<"D", "C">>,
        !.InvoiceHeader.Shipment._ShipNode = <<"S", "N", "0", "0", "1">>,
        !.InvoiceHeader.Shipment.ShipmentNo = <<"S", "H", "I", "P", "1", "2", "3">>,
        !.InvoiceHeader.Order.PriceInfo.Currency = l.currency,
        !.InvoiceHeader.Order.PriceInfo.EnterpriseCurrency = l.currency,
        !.InvoiceHeader.Order.PriceInfo.ReportingConversionRate = IntOf(1),
        !.InvoiceHeader.Order.PersonInfoBillTo.PersonInfoKey = <<>>,
        !.InvoiceHeader.LineDetails.TotalLines = <<"1">>,
        !.InvoiceHeader.LineDetails.LineDetail[1].OrderLine.LineType = <<"m", "r", "k", "l">>,
        !.InvoiceHeader.LineDetails.LineDetail[1].OrderLine.Extn.ExtnMiraklOrderID = <<>>,
        !.InvoiceHeader.LineDetails.LineDetail[1].OrderLine.References.Reference[1].Name =
            <<"R", "O", "-", "I", "D">>,
        !.InvoiceHeader.LineDetails.LineDetail[1].OrderLine.References.Reference[1].Value =
            IF l.refund_id # <<>> THEN <<"M", "R", "K", "L", "-", "R", "E", "F", "-">> \o l.refund_id ELSE <<>>,
        !.InvoiceHeader.CollectionDetails.CollectionDetail[1].AmountCollected = l.amount_str]

\* _map_invoice_to_refund_template once the header is found and the amounts
\* are summed
InvoiceRefundWith(header, amount) ==
    LET amount_str == amount.value
        currency   == _invoice_currency(header)
        tx_num     == _invoice_invoice_no(header)
        inv_type   == Upper(Strip(_invoice_type(header)))
        refund_id  == IF inv_type = <<"C", "R", "E", "D", "I", "T", "_", "M", "E", "M", "O">>
                      THEN _text(_find_first(header, <<"Reference1">>))
                      ELSE _invoice_refund_reference_value(header)
        date_invoiced == _text(_find_first(header, <<"DateInvoiced">>))
        l == [dialect     |-> "invoice",
              amount_str  |-> amount_str,
              currency    |-> currency,
              customer_id |-> <<>>,
              order_id    |-> <<>>,
              refund_id   |-> refund_id,
              tx_num      |-> tx_num,
              tx_date_iso |-> date_invoiced]
    IN  IF amount.exc # "" THEN Raise(amount.exc, "invoice")
        ELSE Return(InvoiceRefundOut(l), l)
InvoiceRefundFrom(header) ==
    IF header = NoElement
    THEN Return(REFUND_TEMPLATE_JSON, [NoLocals EXCEPT !.dialect = "none"])
    ELSE InvoiceRefundWith(header, _sum_amounts_str(_invoice_amounts(header), TRUE))
_map_invoice_to_refund_template(root) == InvoiceRefundFrom(_invoice_header(root))

(***************************************************************************)
(* Mirakl order feed (body) mapper                                         *)
(***************************************************************************)
DecZero == Dec(0, <<0>>, 0)

_sum_texts(els) == SumLoop(Texts(els), 1, DecZero)

\* _to_decimal(text) or Decimal("0"): None and a zero decimal are both falsy
DecOrZero(d) == IF d = NoDecimal \/ IsZero(d.int) THEN DecZero ELSE d

\* the template filled by _map_mirakl_order_body_to_template from its locals l
FeedOrderOut(l, tz) ==
    [ORDER_TEMPLATE_JSON EXCEPT
        !.InvoiceHeader.InvoiceNo = l.tx_num,
        !.InvoiceHeader.DateInvoiced = _to_epoch_ms(l.tx_date_iso, tz),
        !.InvoiceHeader.InvoiceType = <<"s", "h", "i", "p", "m", "e", "n", "t">>,
        !.InvoiceHeader.Shipment.ActualShipmentDate = _to_epoch_ms(l.tx_date_iso, tz),
        !.InvoiceHeader.Shipment.NodeType = <<"D", "C">>,
        !.InvoiceHeader.Shipment._ShipNode = <<"S", "N", "0", "0", "1">>,
        !.InvoiceHeader.Shipment.ShipmentNo = l.order_id,
        !.InvoiceHeader.Order.PriceInfo.Currency = l.currency,
        !.InvoiceHeader.Order.PriceInfo.EnterpriseCurrency = l.currency,
        !.InvoiceHeader.Order.PriceInfo.ReportingConversionRate = PyFloat(<<"1", ".", "0">>),
        !.InvoiceHeader.Order.PersonInfoBillTo.PersonInfoKey = l.customer_id,
        !.InvoiceHeader.LineDetails.TotalLines = <<"1">>,
        !.InvoiceHeader.LineDetails.LineDetail[1].OrderLine.LineType = <<"m", "r", "k", "l">>,
        !.InvoiceHeader.LineDetails.LineDetail[1].OrderLine.Extn.ExtnMiraklOrderID = l.order_id,
        !.InvoiceHeader.CollectionDetails.CollectionDetail[1].AmountCollected = l.amount_str]

\* total_amount of _map_mirakl_order_body_to_template: the quantized sum, or
\* the exception quantize raised
FeedTotal(order) ==
    LET price      == DecOrZero(_to_decimal(_text(_find_first(order, <<"price">>))))
        shipping   == DecOrZero(_to_decimal(_text(_find_first(order, <<"shipping_price">>))))
        taxes      == _sum_texts(_find_all(order,
                          <<"order_lines", "order_line", "taxes", "tax", "amount">>))
        ship_taxes == _sum_texts(_find_all(order,
                          <<"order_lines", "order_line", "shipping_taxes", "shipping_tax", "amount">>))
    IN  Quantize(DecAdd(DecAdd(DecAdd(price, shipping), taxes), ship_taxes))

\* _map_mirakl_order_body_to_template once the order element is chosen and
\* the total is computed
FeedOrderWith(order, total_amount, tz) ==
    LET amount_str  == Format2f(total_amount.value)
        currency    == _text(_find_first(order, <<"currency_iso_code">>))
        customer_id == _text(_find_first(order, <<"customer", "customer_id">>))
        order_id    == _text(_find_first(order, <<"order_id">>))
        tx_num      == _text(_find_first(order, <<"transaction_number">>))
        tx_date_iso == _text(_find_first(order, <<"transaction_date">>))
        l == [dialect     |-> "feed",
              amount_str  |-> amount_str,
              currency    |-> currency,
              customer_id |-> customer_id,
              order_id    |-> order_id,
              refund_id   |-> <<>>,
              tx_num      |-> tx_num,
              tx_date_iso |-> tx_date_iso]
    IN  IF total_amount.exc # "" THEN Raise(total_amount.exc, "feed")
        ELSE Return(FeedOrderOut(l, tz), l)
FeedOrderFrom(order, tz) == FeedOrderWith(order, FeedTotal(order), tz)
_map_mirakl_order_body_to_template(root, tz) ==
    FeedOrderFrom(ElOr(ElOr(_find_first(root, <<"body", "orders", "order">>),
                            _find_first(root, <<"orders", "order">>)), root), tz)

(***************************************************************************)
(* MiraklOrderRefund wrapper mapper                                        *)
(***************************************************************************)
\* variant: the order branch also writes Reference1
order_out_writes_reference1(l, tz) ==
    [ORDER_TEMPLATE_JSON EXCEPT
        !.InvoiceHeader.InvoiceNo = l.tx_num,
        !.InvoiceHeader.DateInvoiced = _to_epoch_ms(l.tx_date_iso, tz),
        !.InvoiceHeader.InvoiceType = <<"s", "h", "i", "p", "m", "e", "n", "t">>,
        !.InvoiceHeader.Shipment.ActualShipmentDate = _to_epoch_ms(l.tx_date_iso, tz),
        !.InvoiceHeader.Shipment.NodeType = <<"D", "C">>,
        !.InvoiceHeader.Shipment._ShipNode = <<"S", "N", "0", "0", "1">>,
        !.InvoiceHeader.Shipment.ShipmentNo = l.order_id,
        !.InvoiceHeader.Order.PriceInfo.Currency = l.currency,
        !.InvoiceHeader.Order.PriceInfo.EnterpriseCurrency = l.currency,
        !.InvoiceHeader.Order.PriceInfo.ReportingConversionRate = PyFloat(<<"1", ".", "0">>),
        !.InvoiceHeader.Order.PersonInfoBillTo.PersonInfoKey = l.customer_id,
        !.InvoiceHeader.LineDetails.TotalLines = <<"1">>,
        !.InvoiceHeader.LineDetails.LineDetail[1].OrderLine.LineType = <<"m", "r", "k", "l">>,
        !.InvoiceHeader.LineDetails.LineDetail[1].OrderLine.Extn.ExtnMiraklOrderID = l.order_id,
        !.InvoiceHeader.CollectionDetails.CollectionDetail[1].AmountCollected = l.amount_str,
        !.InvoiceHeader.Reference1 = l.order_id]
\* the template filled by the order branch of _map_mirakl_wrapper_to_template
\* from its locals l
WrapperOrderOut(l, tz) ==
    [ORDER_TEMPLATE_JSON EXCEPT
        !.InvoiceHeader.InvoiceNo = l.tx_num,
        !.InvoiceHeader.DateInvoiced = _to_epoch_ms(l.tx_date_iso, tz),
        !.InvoiceHeader.InvoiceType = <<"s", "h", "i", "p", "m", "e", "n", "t">>,
        !.InvoiceHeader.Shipment.ActualShipmentDate = _to_epoch_ms(l.tx_date_iso, tz),
        !.InvoiceHeader.Shipment.NodeType = <<"D", "C">>,
        !.InvoiceHeader.Shipment._ShipNode = <<"S", "N", "0", "0", "1">>,
        !.InvoiceHeader.Shipment.ShipmentNo = l.order_id,
        !.InvoiceHeader.Order.PriceInfo.Currency = l.currency,
        !.InvoiceHeader.Order.PriceInfo.EnterpriseCurrency = l.currency,
        !.InvoiceHeader.Order.PriceInfo.ReportingConversionRate = PyFloat(<<"1", ".", "0">>),
        !.InvoiceHeader.Order.PersonInfoBillTo.PersonInfoKey = l.customer_id,
        !.InvoiceHeader.LineDetails.TotalLines = <<"1">>,
        !.InvoiceHeader.LineDetails.LineDetail[1].OrderLine.LineType = <<"m", "r", "k", "l">>,
        !.InvoiceHeader.LineDetails.LineDetail[1].OrderLine.Extn.ExtnMiraklOrderID = l.order_id,
        !.InvoiceHeader.CollectionDetails.CollectionDetail[1].AmountCollected = l.amount_str]

\* the order branch of _map_mirakl_wrapper_to_template; amount is the summed
\* amount, or the exception the sum raised
WrapperOrderWith(order, amount, tz) ==
    LET amount_str  == amount.value
        currency    == _text(_find_first(order, <<"currency_iso_code">>))
        customer_id == _text(_find_first(order, <<"customer_id">>))
        order_id    == _text(_find_first(order, <<"order_id">>))
        tx_num      == _text(_find_first(order, <<"transaction_number">>))
        tx_date_iso == _text(_find_first(order, <<"transaction_date">>))
        l == [dialect     |-> "wrapper",
              amount_str  |-> amount_str,
              currency    |-> currency,
              customer_id |-> customer_id,
              order_id    |-> order_id,
              refund_id   |-> <<>>,
              tx_num      |-> tx_num,
              tx_date_iso |-> tx_date_iso]
    IN  IF amount.exc # "" THEN Raise(amount.exc, "wrapper")
        ELSE Return(WrapperOrderOut(l, tz), l)
WrapperOrder(order, tz) ==
    WrapperOrderWith(order, _sum_amounts_str(<<_text(_find_first(order, <<"amount">>))>>, FALSE), tz)

\* variant: Reference[0].Value is written without testing refund_id
refund_out_value_unconditional(l) ==
    [REFUND_TEMPLATE_JSON EXCEPT
        !.InvoiceHeader.InvoiceNo = l.tx_num,
        !.InvoiceHeader.Reference1 =
            IF l.refund_id # <<>> THEN <<"R", "E", "F", "U", "N", "D", "-">> \o l.refund_id ELSE <<>>,
        !.InvoiceHeader.Interco = <<"T", "O">>,
        !.InvoiceHeader.DateInvoiced = _to_yyyymmdd_int(l.tx_date_iso),
        !.InvoiceHeader.InvoiceType = <<"C", "R", "E", "D", "I", "T", "_", "M", "E", "M", "O">>,
        !.InvoiceHeader.Shipment.ActualShipmentDate = _to_yyyymmdd_int(l.tx_date_iso),
        !.InvoiceHeader.Shipment.NodeType = <<"D", "C">>,
        !.InvoiceHeader.Shipment._ShipNode = <<"S", "N", "0", "0", "1">>,
        !.InvoiceHeader.Shipment.ShipmentNo = <<"S", "H", "I", "P", "1", "2", "3">>,
        !.InvoiceHeader.Order.PriceInfo.Currency = l.currency,
        !.InvoiceHeader.Order.PriceInfo.EnterpriseCurrency = l.currency,
        !.InvoiceHeader.Order.PriceInfo.ReportingConversionRate = IntOf(1),
        !.InvoiceHeader.Order.PersonInfoBillTo.PersonInfoKey = <<>>,
        !.InvoiceHeader.LineDetails.TotalLines = <<"1">>,
        !.InvoiceHeader.LineDetails.LineDetail[1].OrderLine.LineType = <<"m", "r", "k", "l">>,
        !.InvoiceHeader.LineDetails.LineDetail[1].OrderLine.Extn.ExtnMiraklOrderID = <<>>,
        !.InvoiceHeader.LineDetails.LineDetail[1].OrderLine.References.Reference[1].Name =
            <<"R", "O", "-", "I", "D">>,
        !.InvoiceHeader.LineDetails.LineDetail[1].OrderLine.References.Reference[1].Value =
            <<"M", "R", "K", "L", "-", "R", "E", "F", "-">> \o l.refund_id,
        !.InvoiceHeader.CollectionDetails.CollectionDetail[1].AmountCollected = l.amount_str]
\* the template filled by the refund branch of _map_mirakl_wrapper_to_template
\* from its locals l
WrapperRefundOut(l) ==
    [REFUND_TEMPLATE_JSON EXCEPT
        !.InvoiceHeader.InvoiceNo = l.tx_num,
        !.InvoiceHeader.Reference1 =
            IF l.refund_id # <<>> THEN <<"R", "E", "F", "U", "N", "D", "-">> \o l.refund_id ELSE <<>>,
        !.InvoiceHeader.Interco = <<"T", "O">>,
        !.InvoiceHeader.DateInvoiced = _to_yyyymmdd_int(l.tx_date_iso),
        !.InvoiceHeader.InvoiceType = <<"C", "R", "E", "D", "I", "T", "_", "M", "E", "M", "O">>,
        !.InvoiceHeader.Shipment.ActualShipmentDate = _to_yyyymmdd_int(l.tx_date_iso),
        !.InvoiceHeader.Shipment.NodeType = <<"D", "C">>,
        !.InvoiceHeader.Shipment._ShipNode = <<"S", "N", "0", "0", "1">>,
        !.InvoiceHeader.Shipment.ShipmentNo = <<"S", "H", "I", "P", "1", "2", "3">>,
        !.InvoiceHeader.Order.PriceInfo.Currency = l.currency,
        !.InvoiceHeader.Order.PriceInfo.EnterpriseCurrency = l.currency,
        !.InvoiceHeader.Order.PriceInfo.ReportingConversionRate = IntOf(1),
        !.InvoiceHeader.Order.PersonInfoBillTo.PersonInfoKey = <<>>,
        !.InvoiceHeader.LineDetails.TotalLines = <<"1">>,
        !.InvoiceHeader.LineDetails.LineDetail[1].OrderLine.LineType = <<"m", "r", "k", "l">>,
        !.InvoiceHeader.LineDetails.LineDetail[1].OrderLine.Extn.ExtnMiraklOrderID = <<>>,
        !.InvoiceHeader.LineDetails.LineDetail[1].OrderLine.References.Reference[1].Name =
            <<"R", "O", "-", "I", "D">>,
        !.InvoiceHeader.LineDetails.LineDetail[1].OrderLine.References.Reference[1].Value =
            IF l.refund_id # <<>> THEN <<"M", "R", "K", "L", "-", "R", "E", "F", "-">> \o l.refund_id ELSE <<>>,
        !.InvoiceHeader.CollectionDetails.CollectionDetail[1].AmountCollected = l.amount_str]

\* the refund branch of _map_mirakl_wrapper_to_template
WrapperRefundWith(refund, amount) ==
    LET amount_str  == amount.value
        currency    == _text(_find_first(refund, <<"currency_iso_code">>))
        refund_id   == _text(_find_first(refund, <<"refund_id">>))
        tx_num      == _text(_find_first(refund, <<"transaction_number">>))
        tx_date_iso == _text(_find_first(refund, <<"transaction_date">>))
        l == [dialect     |-> "wrapper",
              amount_str  |-> amount_str,
              currency    |-> currency,
              customer_id |-> <<>>,
              order_id    |-> <<>>,
              refund_id   |-> refund_id,
              tx_num      |-> tx_num,
              tx_date_iso |-> tx_date_iso]
    IN  IF amount.exc # "" THEN Raise(amount.exc, "wrapper")
        ELSE Return(WrapperRefundOut(l), l)
WrapperRefund(refund) ==
    WrapperRefundWith(refund, _sum_amounts_str(<<_text(_find_first(refund, <<"amount">>))>>, TRUE))

\* returns None (NoValue) when the document has no wrapper element for the mode
_map_mirakl_wrapper_to_template(root, m, tz) ==
    LET order  == ElOr(_find_first(root, <<"MiraklOrderRefund", "Order">>),
                       _find_first(root, <<"Order">>))
        refund == ElOr(_find_first(root, <<"MiraklOrderRefund", "Refund">>),
                       _find_first(root, <<"Refund">>))
    IN  IF m = "order" /\ order # NoElement THEN WrapperOrder(order, tz)
        ELSE IF m = "refund" /\ refund # NoElement THEN WrapperRefund(refund)
        ELSE Return(NoValue, NoLocals)

(***************************************************************************)
(* Public API                                                              *)
(***************************************************************************)
\* variant: the feed-body mapper is entered in order mode without testing
\* that the document has a feed-body order
feed_unchecked(wrapped, root, m, tz) ==
    IF wrapped.exc # "" \/ wrapped.value # NoValue THEN wrapped
    ELSE IF m = "order" THEN _map_mirakl_order_body_to_template(root, tz)
    ELSE _map_invoice_to_refund_template(root)

\* map_mirakl_xml_to_template after the wrapper mapper returned wrapped: the
\* wrapper result if there is one, else the feed-body or the invoice mapper
map_after_wrapper(wrapped, root, m, tz) ==
    IF wrapped.exc # "" \/ wrapped.value # NoValue THEN wrapped
    ELSE IF m = "order"
            /\ Truthy(ElOr(_find_first(root, <<"body", "orders", "order">>),
                           _find_first(root, <<"orders", "order">>)))
    THEN _map_mirakl_order_body_to_template(root, tz)
    ELSE IF m = "order" THEN _map_invoice_to_order_template(root, tz)
    ELSE _map_invoice_to_refund_template(root)

\* ET.fromstring(xml_text): the root element, or ParseError for a text that
\* is not well-formed XML
map_mirakl_xml_to_template(text, m, tz) ==
    IF ~text.wellformed THEN Raise("ParseError", "")
    ELSE map_after_wrapper(_map_mirakl_wrapper_to_template(text.root, m, tz),
                           text.root, m, tz)

(***************************************************************************)
(* Inputs: the documents, modes and hosts the calls are drawn from         *)
(***************************************************************************)
\* most LineDetail elements of an invoice document
MaxLines == 2
\* longest list of amounts (AmountCollected elements, tax amounts, values)
MaxVals == 2

Modes == {"order", "refund"}
\* UTC offsets, in minutes, of the hosts' local time zones
LocalOffsets == {0, 330}

SeqsUpTo(S, n) == UNION {[1..k -> S] : k \in 0..n}

\* an optional element that the document does not have
Absent == <<"Absent">>
Leaf(name, text) == El(name, text, <<>>)
Opt(name, text) == IF text = Absent THEN <<>> ELSE <<Leaf(name, text)>>
RECURSIVE Nest(_, _)
Nest(path, el) == IF path = <<>> THEN el
                  ELSE El(Head(path), NoText, <<Nest(Tail(path), el)>>)
RECURSIVE Concat(_)
Concat(ss) == IF ss = <<>> THEN <<>> ELSE Head(ss) \o Concat(Tail(ss))

Doc(root) == [wellformed |-> TRUE, root |-> root]
Malformed == [wellformed |-> FALSE, root |-> NoElement]

\* amount texts: decimals, texts the grammar rejects, decimals of 26 to 29 digits
AmountTexts == {<<"1", "0", ".", "0", "0", "5">>, <<"-", "0", ".", "0", "0", "4">>, <<"a", "b", "c">>, <<>>, <<"-", "5", "0", ".", "0", "0">>, <<".", "5">>, <<"5", ".">>, <<" ", "7", " ">>,
                <<"+", "1", "e", "2">>, <<"1", "e", "-", "3">>, <<"-", "0", ".", "0", "0", "1">>, <<"0", ".", "0", "0", "5">>, <<"0", ".", "0", "1">>, <<"1", "e", "2", "6">>,
                <<"9", "9", "9", "9", "9", "9", "9", "9", "9", "9", "9", "9", "9", "9", "9", "9", "9", "9", "9", "9", "9", "9", "9", "9", "9", "9", ".", "9", "9">>, <<"1", "2", "3", "4", "5", "6", "7", "8", "9", "0", "1", "2", "3", "4", "5", "6", "7", "8", "9", "0", "1", "2", "3", "4", "5", "6", ".", "0", "0", "5">>}
InvoiceAmounts == {<<"1", "0", ".", "0", "0", "5">>, <<"-", "0", ".", "0", "0", "4">>, <<"a", "b", "c">>, <<"-", "5", "0", ".", "0", "0">>, <<"1", "e", "2", "6">>}
TaxAmounts == {<<"8", ".", "2", "5">>, <<"x">>, <<"0", ".", "0", "0", "5">>}
DateTexts == {<<>>, <<"2", "0", "2", "5", "0", "7", "2", "5">>, <<"2", "0", "2", "5", "1", "3", "4", "0">>, <<"1", "7", "5", "5", "6", "5", "3", "1", "1", "7", "0", "0", "0">>, <<"1", "7", "5", "5", "6", "5", "3", "1", "1", "7">>,
              <<"2", "0", "2", "5", "-", "0", "7", "-", "2", "5", "T", "1", "0", ":", "0", "0", ":", "0", "0", "Z">>, <<"2", "0", "2", "5", "-", "0", "7", "-", "2", "5", "T", "0", "1", ":", "0", "0", ":", "0", "0", "+", "0", "2", ":", "0", "0">>,
              <<"2", "0", "2", "5", "-", "0", "7", "-", "2", "5", "T", "1", "0", ":", "0", "0", ":", "0", "0">>, <<"2", "0", "2", "5", "-", "0", "7", "-", "2", "5">>, <<"g", "a", "r", "b", "a", "g", "e">>}

\* ---- wrapper elements
OrderEl(amount, date) ==
    El("Order", NoText,
       Opt("amount", amount) \o <<Leaf("currency_iso_code", <<"U", "S", "D">>), Leaf("customer_id", <<"W", "C">>),
       Leaf("order_id", <<"W", "O">>), Leaf("transaction_number", <<"W", "1">>)>>
       \o Opt("transaction_date", date))
RefundEl(amount, date) ==
    El("Refund", NoText,
       Opt("amount", amount) \o <<Leaf("currency_iso_code", <<"C", "A", "D">>), Leaf("refund_id", <<"W", "R">>),
       Leaf("customer_id", <<"W", "C">>), Leaf("order_id", <<"W", "O">>),
       Leaf("transaction_number", <<"W", "2">>)>>
       \o Opt("transaction_date", date))

\* ---- feed-body order element
OrderLineEl(taxes, ship_taxes) ==
    El("order_line", NoText,
       <<El("taxes", NoText,
            [i \in DOMAIN taxes |-> El("tax", NoText, <<Leaf("amount", taxes[i])>>)]),
         El("shipping_taxes", NoText,
            [i \in DOMAIN ship_taxes |->
                El("shipping_tax", NoText, <<Leaf("amount", ship_taxes[i])>>)])>>)
\* one order_line per tax amount, the shipping taxes on the first line
FeedOrderEl(price, shipping, taxes, ship_taxes) ==
    El("order", NoText,
       Opt("price", price) \o Opt("shipping_price", shipping)
       \o <<Leaf("currency_iso_code", <<"E", "U", "R">>),
            El("customer", NoText, <<Leaf("customer_id", <<"F", "C">>)>>),
            Leaf("order_id", <<"F", "O">>), Leaf("transaction_number", <<"F", "1">>),
            Leaf("transaction_date", <<"2", "0", "2", "5", "-", "0", "7", "-", "2", "5", "T", "1", "0", ":", "0", "0", ":", "0", "0", "Z">>),
            El("order_lines", NoText,
               IF taxes = <<>> THEN <<OrderLineEl(<<>>, ship_taxes)>>
               ELSE [i \in DOMAIN taxes |->
                        OrderLineEl(<<taxes[i]>>, IF i = 1 THEN ship_taxes ELSE <<>>)])>>)

\* ---- invoice header element
RefEl(name, value) == El("Reference", NoText, Opt("Name", name) \o Opt("Value", value))
\* the kinds of LineDetail: where the order id sits and which reference it has
LineKinds == {"A", "B", "C", "D"}
LineDetailEl(kind) ==
    CASE kind = "A" ->
           El("LineDetail", NoText,
              <<El("OrderLine", NoText,
                   <<El("Extn", NoText, <<Leaf("ExtnMiraklOrderID", <<"O", "1">>)>>),
                     El("References", NoText, <<RefEl(<<"R", "O", "-", "I", "D">>, <<"X", "Y", "Z">>)>>)>>)>>)
      [] kind = "B" ->
           El("LineDetail", NoText,
              <<El("OrderLine", NoText,
                   <<El("Extn", NoText, <<Leaf("ExtnMiraklOrderID", <<"O", "2">>)>>),
                     El("References", NoText,
                        <<RefEl(<<"O", "t", "h", "e", "r">>, <<"N">>), RefEl(<<" ", "m", "r", "k", "l", "_", "r", "e", "f", "u", "n", "d", "_", "i", "d", " ">>, <<"R", "2">>)>>)>>)>>)
      [] kind = "C" ->
           El("LineDetail", NoText,
              <<El("OrderLine", NoText,
                   <<El("References", NoText, <<RefEl(<<"O", "t", "h", "e", "r">>, <<"N">>)>>)>>)>>)
      [] kind = "D" ->
           El("LineDetail", NoText,
              <<El("Extn", NoText, <<Leaf("ExtnMiraklOrderID", <<"O", "4">>)>>),
                El("OrderLine", NoText,
                   <<El("References", NoText, <<RefEl(<<"r", "o", "-", "i", "d">>, Absent)>>)>>)>>)

InvoiceHeaderEl(inv_type, ref1, lines, ship_date, date_invoiced, amounts) ==
    El("InvoiceHeader", NoText,
       <<Leaf("InvoiceNo", <<"I", "1">>)>>
       \o Opt("InvoiceType", inv_type) \o Opt("Reference1", ref1)
       \o Opt("DateInvoiced", date_invoiced)
       \o (IF ship_date = Absent THEN <<>>
           ELSE <<El("Shipment", NoText, <<Leaf("ActualShipmentDate", ship_date)>>)>>)
       \o <<El("Order", NoText,
               <<El("PriceInfo", NoText, <<Leaf("Currency", <<"G", "B", "P">>)>>),
                 El("PersonInfoBillTo", NoText, <<Leaf("PersonInfoKey", <<"I", "C">>)>>)>>)>>
       \o (IF lines = <<>> THEN <<>>
           ELSE <<El("LineDetails", NoText, [i \in DOMAIN lines |-> LineDetailEl(lines[i])])>>)
       \o <<El("CollectionDetails", NoText,
               [i \in DOMAIN amounts |->
                   El("CollectionDetail", NoText, <<Leaf("AmountCollected", amounts[i])>>)])>>)

\* ---- documents that combine the dialects: each of the four elements is
\* absent, at its long path or at its short path, with or without children
Kinds == {"absent", "long", "longEmpty", "short", "shortEmpty"}
Part(kind, path, el) ==
    LET name  == el.tag.name
        empty == El(name, NoText, <<>>)
    IN  CASE kind = "absent"     -> <<>>
          [] kind = "long"       -> <<Nest(path, el)>>
          [] kind = "longEmpty"  -> <<Nest(path, empty)>>
          [] kind = "short"      -> <<Nest(Tail(path), el)>>
          [] kind = "shortEmpty" -> <<Nest(Tail(path), empty)>>

SampleOrder == OrderEl(<<"1", "0", ".", "0", "0">>, <<"2", "0", "2", "5", "0", "7", "2", "5">>)
SampleRefund == RefundEl(<<"-", "2", "0", ".", "0", "0">>, <<"2", "0", "2", "5", "0", "7", "2", "6">>)
SampleFeed == FeedOrderEl(<<"1", "0", "0", ".", "0", "0">>, <<"5", ".", "0", "0">>, <<<<"8", ".", "2", "5">>>>, <<>>)
SampleInvoice == InvoiceHeaderEl(<<"s", "h", "i", "p", "m", "e", "n", "t">>, <<"A", "B", "C", "1", "2", "3">>, <<"A">>, <<"2", "0", "2", "5", "0", "7", "2", "7">>,
                                 <<"2", "0", "2", "5", "0", "7", "2", "8">>, <<<<"3", "0", ".", "0", "0">>>>)

MixedDocs ==
    {Doc(El("doc", NoText,
            Part(ko, <<"MiraklOrderRefund">>, SampleOrder)
            \o Part(kr, <<"MiraklOrderRefund">>, SampleRefund)
            \o Part(kf, <<"body", "orders">>, SampleFeed)
            \o Part(ki, <<"InvoiceDetail">>, SampleInvoice)))
        : ko \in Kinds, kr \in Kinds, kf \in Kinds, ki \in Kinds}

\* ---- invoice documents
InvoiceDoc(header) == Doc(El("InvoiceDetail", NoText, <<header>>))
InvoiceRefDocs ==
    {InvoiceDoc(InvoiceHeaderEl(it, r1, ls, <<"2", "0", "2", "5", "0", "7", "2", "7">>, <<"2", "0", "2", "5", "0", "7", "2", "8">>, <<<<"3", "0", ".", "0", "0">>>>))
        : it \in {Absent, <<"C", "R", "E", "D", "I", "T", "_", "M", "E", "M", "O">>, <<" ", "c", "r", "e", "d", "i", "t", "_", "m", "e", "m", "o", " ">>, <<"s", "h", "i", "p", "m", "e", "n", "t">>},
          r1 \in {Absent, NoText, <<"A", "B", "C", "1", "2", "3">>},
          ls \in SeqsUpTo(LineKinds, MaxLines)}
InvoiceDateDocs ==
    {InvoiceDoc(InvoiceHeaderEl(<<"s", "h", "i", "p", "m", "e", "n", "t">>, Absent, <<"A">>, sd, di, <<<<"3", "0", ".", "0", "0">>>>))
        : sd \in {Absent, NoText, <<" ", " ">>, <<"2", "0", "2", "5", "0", "7", "2", "7">>, <<"2", "0", "2", "5", "-", "0", "7", "-", "2", "5", "T", "1", "0", ":", "0", "0", ":", "0", "0">>},
          di \in {Absent, <<"2", "0", "2", "5", "0", "7", "2", "8">>}}
InvoiceAmountDocs ==
    {InvoiceDoc(InvoiceHeaderEl(<<"s", "h", "i", "p", "m", "e", "n", "t">>, Absent, <<"A">>, Absent, <<"2", "0", "2", "5", "0", "7", "2", "8">>, am))
        : am \in SeqsUpTo(InvoiceAmounts, MaxVals)}

\* ---- wrapper and feed-body documents
WrapperDocs ==
    {Doc(El("MiraklOrderRefund", NoText, <<OrderEl(a, <<"2", "0", "2", "5", "0", "7", "2", "5">>), RefundEl(a, <<"2", "0", "2", "5", "0", "7", "2", "6">>)>>))
        : a \in AmountTexts \cup {Absent}}
    \cup
    {Doc(El("MiraklOrderRefund", NoText, <<OrderEl(<<"1", "0", ".", "0", "0">>, d), RefundEl(<<"-", "2", "0", ".", "0", "0">>, d)>>))
        : d \in DateTexts \cup {Absent}}
FeedDocs ==
    {Doc(El("body", NoText, <<El("orders", NoText, <<FeedOrderEl(p, s, tx, st)>>)>>))
        : p \in {Absent, <<"1", "0", "0", ".", "0", "0">>, <<"a", "b", "c">>, <<"1", "e", "2", "6">>},
          s \in {Absent, <<"5", ".", "0", "0">>, <<"-", "0", ".", "0", "0", "5">>},
          tx \in SeqsUpTo(TaxAmounts, MaxVals),
          st \in {<<>>, <<<<"1", ".", "1", "0">>>>, <<<<"1", "2", "3", "4", "5", "6", "7", "8", "9", "0", "1", "2", "3", "4", "5", "6", "7", "8", "9", "0", "1", "2", "3", "4", "5", "6", ".", "0", "0", "5">>>>}}

\* ---- wrapper documents whose identifying fields are missing, without
\* text or blank
OrderElOf(cur, cust, oid, txn) ==
    El("Order", NoText,
       <<Leaf("amount", <<"1", "0", ".", "0", "0">>)>> \o Opt("currency_iso_code", cur)
       \o Opt("customer_id", cust) \o Opt("order_id", oid)
       \o Opt("transaction_number", txn))
RefundElOf(cur, cust, oid, rid, txn) ==
    El("Refund", NoText,
       <<Leaf("amount", <<"-", "2", "0", ".", "0", "0">>)>> \o Opt("currency_iso_code", cur)
       \o Opt("refund_id", rid) \o Opt("customer_id", cust) \o Opt("order_id", oid)
       \o Opt("transaction_number", txn))
WrapperFieldDocs ==
    {Doc(El("MiraklOrderRefund", NoText,
            <<OrderElOf(cur, cust, oid, txn), RefundElOf(cur, cust, oid, rid, txn)>>))
        : cur \in {Absent, <<"U", "S", "D">>},
          cust \in {Absent, NoText, <<"W", "C">>},
          oid \in {Absent, <<" ">>, <<"W", "O">>},
          rid \in {Absent, NoText, <<" ">>, <<"W", "R">>},
          txn \in {Absent, <<"W", "1">>}}

\* ---- invoice and feed-body documents whose fields are missing or blank
InvoiceHeaderElOf(no, cur, key, oid) ==
    El("InvoiceHeader", NoText,
       Opt("InvoiceNo", no) \o <<Leaf("DateInvoiced", <<"2", "0", "2", "5", "0", "7", "2", "8">>)>>
       \o <<El("Order", NoText,
               <<El("PriceInfo", NoText, Opt("Currency", cur)),
                 El("PersonInfoBillTo", NoText, Opt("PersonInfoKey", key))>>)>>
       \o <<El("LineDetails", NoText,
               <<El("LineDetail", NoText,
                    <<El("OrderLine", NoText,
                         <<El("Extn", NoText, Opt("ExtnMiraklOrderID", oid))>>)>>)>>)>>
       \o <<El("CollectionDetails", NoText,
               <<El("CollectionDetail", NoText, <<Leaf("AmountCollected", <<"3", "0", ".", "0", "0">>)>>)>>)>>)
InvoiceFieldDocs ==
    {InvoiceDoc(InvoiceHeaderElOf(no, cur, key, oid))
        : no \in {Absent, <<"I", "1">>},
          cur \in {Absent, <<" ">>, <<"G", "B", "P">>},
          key \in {Absent, NoText, <<"I", "C">>},
          oid \in {Absent, <<"O", "1">>}}
FeedOrderElOf(cur, cust, oid, txn, date) ==
    El("order", NoText,
       <<Leaf("price", <<"1", "0", "0", ".", "0", "0">>)>> \o Opt("currency_iso_code", cur)
       \o (IF cust = Absent THEN <<>> ELSE <<El("customer", NoText, Opt("customer_id", cust))>>)
       \o Opt("order_id", oid) \o Opt("transaction_number", txn)
       \o Opt("transaction_date", date))
FeedFieldDocs ==
    {Doc(El("body", NoText, <<El("orders", NoText, <<FeedOrderElOf(cur, cust, oid, txn, date)>>)>>))
        : cur \in {Absent, <<"E", "U", "R">>},
          cust \in {Absent, NoText, <<"F", "C">>},
          oid \in {Absent, <<"F", "O">>},
          txn \in {Absent, <<"F", "1">>},
          date \in {Absent, <<"g", "a", "r", "b", "a", "g", "e">>, <<"2", "0", "2", "5", "1", "3", "4", "0">>}}

Docs == MixedDocs \cup InvoiceRefDocs \cup InvoiceDateDocs \cup InvoiceAmountDocs
        \cup WrapperDocs \cup WrapperFieldDocs \cup FeedDocs \cup InvoiceFieldDocs
        \cup FeedFieldDocs \cup {Malformed}

(***************************************************************************)
(* The calls                                                               *)
(***************************************************************************)
NoResult == [exc |-> "", value |-> NoValue]

\* the parts of the state a specification does not use stay as they are here
MapIdle ==
    /\ xml_text = Malformed
    /\ mode = "order"
    /\ pc = "idle"
    /\ result = NoResult
    /\ loc = NoLocals
SumIdle ==
    /\ values = <<>>
    /\ abs_value = FALSE
    /\ spc = "idle"
    /\ sresult = [exc |-> "", value |-> <<>>]
Callers == {1, 2}
NoCall == [pc |-> "idle", text |-> Malformed, mode |-> "order", ref |-> 0, exc |-> "",
           pending |-> NoValue, none |-> FALSE, dirty |-> FALSE]
CallsIdle ==
    /\ heap = <<>>
    /\ calls = [c \in Callers |-> NoCall]
    /\ ncalls = 0
NoStats == [files_scanned |-> 0, hits |-> 0, written_files |-> <<>>]
NoScan == [pc |-> "idle", fi |-> 0, ri |-> 0, ki |-> 0, pi |-> 0, filters |-> <<>>]
ScanIdle ==
    /\ cfg = [filters |-> <<>>, fresh |-> FALSE]
    /\ input_date = [null |-> TRUE]
    /\ files = <<>>
    /\ fs = <<>>
    /\ scan = NoScan
    /\ stats = NoStats
    /\ per_folder_hits = <<>>
NoRequest == [pc |-> "idle", anything |-> <<>>, status |-> 0, date |-> <<>>,
              ran |-> FALSE]
ApiIdle == req = NoRequest
NoDecCall == [pc |-> "idle", s |-> <<>>, value |-> NoDecimal]
DecIdle == dec = NoDecCall
NoDateCall == [pc |-> "idle", s |-> <<>>, ms |-> Zero, ymd |-> Zero]
DateIdle == datecall = NoDateCall
NoFindCall == [pc |-> "idle", root |-> NoElement, path |-> <<>>, first |-> NoElement, all |-> <<>>]
FindIdle == findcall = NoFindCall
NoGcs == [pc |-> "idle", fn |-> "", root_uri |-> NoText, on_path |-> FALSE, available |-> "none",
          config_path |-> <<>>, has_local |-> FALSE,
          config |-> [input_glob |-> <<>>, output |-> <<>>, fresh |-> FALSE],
          remote0 |-> <<>>, remote |-> <<>>, local |-> <<>>, issued |-> <<>>,
          exc |-> "", at |-> "", processed |-> "", downloaded |-> 0, uploaded |-> 0]
GcsIdle == gcs = NoGcs

\* a caller is about to call map_mirakl_xml_to_template(xml_text, mode)
Init ==
    /\ xml_text \in Docs
    /\ mode \in Modes
    /\ localtz \in LocalOffsets
    /\ pc = "call"
    /\ result = NoResult
    /\ loc = NoLocals
    /\ SumIdle
    /\ CallsIdle
    /\ ScanIdle
    /\ ApiIdle
    /\ DecIdle
    /\ DateIdle
    /\ FindIdle
    /\ GcsIdle

\* the call runs to its return or to the exception it raises
MapCall ==
    /\ pc = "call"
    /\ LET r == map_mirakl_xml_to_template(xml_text, mode, localtz)
       IN  /\ result' = [exc |-> r.exc, value |-> r.value]
           /\ loc' = r.loc
    /\ pc' = "done"
    /\ UNCHANGED <<xml_text, mode, localtz, gcsVars, findVars, dateVars, apiVars, decVars, sumVars, callsVars, scanVars>>

Next == MapCall

Spec == Init /\ [][Next]_vars

\* a caller is about to call _sum_amounts_str(values, abs_value)
InitSum ==
    /\ values \in SeqsUpTo(AmountTexts, MaxVals)
    /\ abs_value \in BOOLEAN
    /\ spc = "call"
    /\ sresult = [exc |-> "", value |-> <<>>]
    /\ localtz = 0
    /\ MapIdle
    /\ CallsIdle
    /\ ScanIdle
    /\ ApiIdle
    /\ DecIdle
    /\ DateIdle
    /\ FindIdle
    /\ GcsIdle

SumCall ==
    /\ spc = "call"
    /\ sresult' = _sum_amounts_str(values, abs_value)
    /\ spc' = "done"
    /\ UNCHANGED <<mapVars, localtz, gcsVars, findVars, dateVars, apiVars, decVars, values, abs_value, callsVars, scanVars>>

NextSum == SumCall

SpecSum == InitSum /\ [][NextSum]_vars


(***************************************************************************)
(* Interleaved calls of the mapper by several callers.  Python dicts are   *)
(* objects: heap[ref] is the content of the dict with id ref, and a caller *)
(* holds the reference the call returned.                                  *)
(***************************************************************************)
\* most calls the callers begin in a run
MaxCalls == 3
\* the inputs the callers pass: a wrapper document in both modes, an invoice,
\* a document of no dialect and a text that is not XML
CallWrapper ==
    Doc(El("MiraklOrderRefund", NoText,
           <<OrderEl(<<"1", "0", ".", "0", "0">>, <<"2", "0", "2", "5", "-", "0", "7", "-", "2", "5", "T", "1", "0", ":", "0", "0", ":", "0", "0">>), RefundEl(<<"-", "2", "0", ".", "0", "0">>, <<"2", "0", "2", "5", "0", "7", "2", "6">>)>>))
CallInputs ==
    {[text |-> CallWrapper, mode |-> "order"],
     [text |-> CallWrapper, mode |-> "refund"],
     [text |-> InvoiceDoc(SampleInvoice), mode |-> "refund"],
     [text |-> Doc(El("doc", NoText, <<>>)), mode |-> "order"],
     [text |-> Malformed, mode |-> "order"]}
TemplateOf(m) == IF m = "order" THEN ORDER_TEMPLATE_JSON ELSE REFUND_TEMPLATE_JSON

\* variant: the template text is parsed once and every call gets that object
loads_shared(h, parsed) == [heap |-> IF h = <<>> THEN <<parsed>> ELSE h, ref |-> 1]
\* json.loads(text): a new dict object whose content is the parse of text
json_loads(h, parsed) == [heap |-> Append(h, parsed), ref |-> Len(h) + 1]

InitCalls ==
    /\ localtz \in LocalOffsets
    /\ MapIdle
    /\ SumIdle
    /\ CallsIdle
    /\ ScanIdle
    /\ ApiIdle
    /\ DecIdle
    /\ DateIdle
    /\ FindIdle
    /\ GcsIdle

\* caller c calls map_mirakl_xml_to_template(text, m); it no longer uses what
\* an earlier call returned to it
Begin(c) ==
    /\ calls[c].pc \in {"idle", "returned", "raised"}
    /\ ncalls < MaxCalls
    /\ \E inp \in CallInputs :
          calls' = [calls EXCEPT ![c] = [NoCall EXCEPT !.pc = "called", !.text = inp.text,
                                                       !.mode = inp.mode]]
    /\ ncalls' = ncalls + 1
    /\ UNCHANGED <<mapVars, sumVars, scanVars, localtz, gcsVars, findVars, dateVars, apiVars, decVars, heap>>

\* the call up to its json.loads: the parse, the detection and the locals
\* (r is what the call will return or raise)
Extracted(call, r) ==
    IF r.exc # "" THEN [call EXCEPT !.pc = "raised", !.exc = r.exc]
    ELSE [call EXCEPT !.pc = "extracted", !.pending = r.value,
                      !.none = (r.loc.dialect = "none")]
Extract(c) ==
    /\ calls[c].pc = "called"
    /\ calls' = [calls EXCEPT ![c] =
                    Extracted(@, map_mirakl_xml_to_template(@.text, @.mode, localtz))]
    /\ UNCHANGED <<mapVars, sumVars, scanVars, localtz, gcsVars, findVars, dateVars, apiVars, decVars, heap, ncalls>>

\* out = json.loads(ORDER_TEMPLATE_JSON) / json.loads(REFUND_TEMPLATE_JSON)
Loaded(c, o) ==
    /\ heap' = o.heap
    /\ calls' = [calls EXCEPT ![c].pc = "loaded", ![c].ref = o.ref]
Load(c) ==
    /\ calls[c].pc = "extracted"
    /\ Loaded(c, json_loads(heap, TemplateOf(calls[c].mode)))
    /\ UNCHANGED <<mapVars, sumVars, scanVars, localtz, gcsVars, findVars, dateVars, apiVars, decVars, ncalls>>

\* the assignments to the leaves of out, none when no dialect matched, and
\* return out
Populate(c) ==
    /\ calls[c].pc = "loaded"
    /\ heap' = [heap EXCEPT ![calls[c].ref] = IF calls[c].none THEN @ ELSE calls[c].pending]
    /\ calls' = [calls EXCEPT ![c].pc = "returned", ![c].pending = NoValue]
    /\ UNCHANGED <<mapVars, sumVars, scanVars, localtz, gcsVars, findVars, dateVars, apiVars, decVars, ncalls>>

\* the caller changes leaves of the mapping it was returned
Mutate(c) ==
    /\ calls[c].pc = "returned"
    /\ ~calls[c].dirty
    /\ heap' = [heap EXCEPT ![calls[c].ref].InvoiceHeader.InvoiceNo = <<"X">>,
                            ![calls[c].ref].InvoiceHeader.Interco = <<"X">>]
    /\ calls' = [calls EXCEPT ![c].dirty = TRUE]
    /\ UNCHANGED <<mapVars, sumVars, scanVars, localtz, gcsVars, findVars, dateVars, apiVars, decVars, ncalls>>

NextCalls == \E c \in Callers : Begin(c) \/ Extract(c) \/ Load(c) \/ Populate(c) \/ Mutate(c)

SpecCalls == InitCalls /\ [][NextCalls]_vars

(***************************************************************************)
(* The scan loop (src/main.py, process).  A JSON value is null, a string   *)
(* or a list; a path is the list of its directories below the output root  *)
(* and its file name; the file system maps the paths of the files that     *)
(* exist to their contents.                                                *)
(***************************************************************************)
JNull == [null |-> TRUE]
JStr(t) == [str |-> t]
JList(xs) == [list |-> xs]
\* str(x)
Str(v) == IF v = JNull THEN <<"N", "o", "n", "e">> ELSE v.str
\* bool(x)
JTruthy(v) == v # JNull /\ v # JStr(<<>>) /\ v # JList(<<>>)

\* str.lower()
LowerChar(c) == IF c \in Range(UpperChars)
                THEN LowerChars[CHOOSE i \in 1..26 : UpperChars[i] = c] ELSE c
Lower(s) == [i \in DOMAIN s |-> LowerChar(s[i])]

\* re.sub(r"[S]+", r, s): every maximal run of characters of S becomes r
RECURSIVE SubRuns(_, _, _)
SubRuns(s, S, r) ==
    IF s = <<>> THEN <<>>
    ELSE (IF Head(s) \notin S THEN <<Head(s)>>
          ELSE IF Len(s) > 1 /\ s[2] \in S THEN <<>> ELSE r)
         \o SubRuns(Tail(s), S, r)
OrText(s, default) == IF s = <<>> THEN default ELSE s
\* the characters of [A-Za-z0-9_-]
SafeChars == Range(DigitChars) \cup Range(LowerChars) \cup Range(UpperChars) \cup {"_", "-"}
\* the characters of [<>:"/\|?*]
ReservedChars == {"<", ">", ":", "\"", "/", "\\", "|", "?", "*"}

safe_folder(name) ==
    OrText(SelectSeq(SubRuns(Strip(name), Whitespace, <<"_">>), LAMBDA c : c \in SafeChars),
           <<"u", "n", "k", "n", "o", "w", "n">>)

\* the inputs hold no control characters, which the first re.sub removes
safe_filename(name) ==
    OrText(Strip(SubRuns(SubRuns(name, ReservedChars, <<" ">>), Whitespace, <<" ">>)),
           <<"u", "n", "t", "i", "t", "l", "e", "d">>)

as_list(v) == IF v = JNull THEN <<>> ELSE IF "list" \in DOMAIN v THEN v.list ELSE <<v>>

extract_invoice(src) ==
    IF src.AuditKey1 # JNull /\ Strip(Str(src.AuditKey1)) = <<"I", "n", "v", "o", "i", "c", "e", "N", "o">>
       /\ JTruthy(src.AuditKeyValue1)
    THEN Str(src.AuditKeyValue1)
    ELSE IF as_list(src.AuditKeyValue) # <<>> THEN Str(as_list(src.AuditKeyValue)[1])
    ELSE <<>>

\* [str(x).strip().lower() for x in as_list(v)]
StripLowerAll(v) == {Lower(Strip(Str(as_list(v)[i]))) : i \in DOMAIN as_list(v)}
\* variant: the event name of the filter is not looked at
record_matches_desc_only(src, want_desc_l, want_name_l) ==
    want_desc_l \in StripLowerAll(src.EventDescription)
record_matches(src, want_desc_l, want_name_l) ==
    IF want_desc_l \notin StripLowerAll(src.EventDescription) THEN FALSE
    ELSE IF want_name_l # <<>> THEN want_name_l \in StripLowerAll(src.EventName)
    ELSE TRUE

\* a path below the output root
PathOf(dir, name) == [dir |-> dir, name |-> name]
\* path.stem and path.suffix: the name is cut at its last "."
LastDot(name) == IF \E i \in 2..Len(name) : name[i] = "."
                 THEN CHOOSE i \in 2..Len(name) :
                         name[i] = "." /\ \A j \in (i + 1)..Len(name) : name[j] # "."
                 ELSE Len(name) + 1
Stem(name) == SubSeq(name, 1, LastDot(name) - 1)
Suffix(name) == SubSeq(name, LastDot(name), Len(name))
\* str(i)
IntText(i) == DigitsText(NatDigits(i))
\* the while loop of make_unique from candidate number i
RECURSIVE UniqueFrom(_, _, _)
UniqueFrom(existing, path, i) ==
    IF PathOf(path.dir, Stem(path.name) \o <<"_">> \o IntText(i) \o Suffix(path.name))
          \notin existing
    THEN PathOf(path.dir, Stem(path.name) \o <<"_">> \o IntText(i) \o Suffix(path.name))
    ELSE UniqueFrom(existing, path, i + 1)
\* variant: the requested path is taken whether it exists or not
make_unique_requested(existing, path) == path
\* existing: the paths for which path.exists()
make_unique(existing, path) ==
    IF path \notin existing THEN path ELSE UniqueFrom(existing, path, 2)

norm_folder_key(folder) ==
    [i \in DOMAIN Strip(folder) |->
        IF Lower(Strip(folder))[i] = " " THEN "_" ELSE Lower(Strip(folder))[i]]

NAMING_RULES ==
    [k \in {<<"p", "r", "o", "d", "u", "c", "e", "r", "-", "i", "n", "p", "u", "t">>, <<"m", "i", "r", "a", "k", "l", "-", "o", "r", "d", "e", "r">>, <<"m", "i", "r", "a", "k", "l", "-", "r", "e", "f", "u", "n", "d">>, <<"v", "e", "r", "t", "e", "x">>, <<"i", "p", "-", "u", "s">>,
            <<"i", "p", "-", "u", "k">>, <<"p", "i", "x">>} |->
        CASE k = <<"p", "r", "o", "d", "u", "c", "e", "r", "-", "i", "n", "p", "u", "t">> -> [prefix |-> <<"i", "n", "p", "u", "t">>, ext |-> <<"x", "m", "l">>]
          [] k = <<"m", "i", "r", "a", "k", "l", "-", "o", "r", "d", "e", "r">>   -> [prefix |-> <<"m", "i", "r", "a", "k", "l", "_", "o", "r", "d", "e", "r">>, ext |-> <<"j", "s", "o", "n">>]
          [] k = <<"m", "i", "r", "a", "k", "l", "-", "r", "e", "f", "u", "n", "d">>  -> [prefix |-> <<"m", "i", "r", "a", "k", "l", "_", "r", "e", "f", "u", "n", "d">>, ext |-> <<"j", "s", "o", "n">>]
          [] k = <<"v", "e", "r", "t", "e", "x">>         -> [prefix |-> <<"v", "e", "r", "t", "e", "x">>, ext |-> <<"t", "x", "t">>]
          [] k = <<"i", "p", "-", "u", "s">>          -> [prefix |-> <<"i", "p", "-", "u", "s">>, ext |-> <<"t", "x", "t">>]
          [] k = <<"i", "p", "-", "u", "k">>          -> [prefix |-> <<"i", "p", "-", "u", "k">>, ext |-> <<"t", "x", "t">>]
          [] k = <<"p", "i", "x">>            -> [prefix |-> <<"p", "i", "x">>, ext |-> <<"x", "m", "l">>]]

\* one entry of filters; f is an entry of cfg["filters"], a missing key is null
NamingOf(folder_key) ==
    IF folder_key \in DOMAIN NAMING_RULES THEN NAMING_RULES[folder_key]
    ELSE [prefix |-> OrText(folder_key, <<"o", "u", "t", "p", "u", "t">>), ext |-> <<"t", "x", "t">>]
TextOr(v) == IF JTruthy(v) THEN v.str ELSE <<>>
FilterWith(folder, folder_key, want_desc, want_name) ==
    [folder      |-> folder,
     folder_key  |-> folder_key,
     prefix      |-> NamingOf(folder_key).prefix,
     ext         |-> NamingOf(folder_key).ext,
     want_desc   |-> want_desc,
     want_desc_l |-> Lower(want_desc),
     want_name   |-> want_name,
     want_name_l |-> Lower(want_name)]
FilterOf(f) ==
    FilterWith(safe_folder(TextOr(f.folder)),
               norm_folder_key(OrText(TextOr(f.folder), safe_folder(TextOr(f.folder)))),
               Strip(TextOr(f.event_description)), Strip(TextOr(f.event_name)))
\* the loop that builds filters: entries without event_description are dropped
RECURSIVE BuildFilters(_)
BuildFilters(raw_filters) ==
    IF raw_filters = <<>> THEN <<>>
    ELSE (IF Strip(TextOr(Head(raw_filters).event_description)) = <<>> THEN <<>>
          ELSE <<FilterOf(Head(raw_filters))>>)
         \o BuildFilters(Tail(raw_filters))
\* ---- the inputs of a run of process
Src(desc, name, payloads, key1, value1, values_) ==
    [EventDescription |-> desc, EventName |-> name, AuditAttachmentsData |-> payloads,
     AuditKey1 |-> key1, AuditKeyValue1 |-> value1, AuditKeyValue |-> values_]
\* payloads: a wrapper document, a text that is not XML, a wrapper document
\* whose amounts make the mapper raise
Payloads ==
    {CallWrapper, Malformed,
     Doc(El("MiraklOrderRefund", NoText,
            <<OrderEl(<<"1", "e", "2", "6">>, <<"2", "0", "2", "5", "0", "7", "2", "5">>), RefundEl(<<"1", "e", "2", "6">>, <<"2", "0", "2", "5", "0", "7", "2", "6">>)>>))}
\* two files with hits, a file that is not JSON and a directory
FilesOf(p1, p2, p3, desc) ==
    <<[kind |-> "ok",
       hits |-> <<Src(JStr(<<" ", "O", "r", "d", "e", "r", " ", "C", "r", "e", "a", "t", "e", "d", " ">>), JNull, JList(<<p1, p2>>),
                      JStr(<<"I", "n", "v", "o", "i", "c", "e", "N", "o">>), JStr(<<"I", "N", "V", " ", "1">>), JNull),
                  Src(JList(<<JStr(<<"x">>), JStr(<<"r", "e", "f", "u", "n", "d", " ", "c", "r", "e", "a", "t", "e", "d">>)>>), JStr(<<"N">>), p3,
                      JNull, JNull, JList(<<JStr(<<"I", "N", "V", "1">>)>>))>>],
      [kind |-> "bad", hits |-> <<>>],
      [kind |-> "dir", hits |-> <<>>],
      [kind |-> "ok",
       hits |-> <<Src(JStr(<<"o", "r", "d", "e", "r", " ", "c", "r", "e", "a", "t", "e", "d">>), JNull, JNull, JNull, JNull, JNull),
                  Src(JStr(desc), JNull, JList(<<p1>>), JNull, JNull,
                      JList(<<JStr(<<"I", "N", "V", "1">>)>>))>>]>>
RawFilter(folder, desc, name) == [folder |-> folder, event_description |-> desc,
                                  event_name |-> name]
ConfigFilters ==
    <<RawFilter(JStr(<<"m", "i", "r", "a", "k", "l", "-", "o", "r", "d", "e", "r">>), JStr(<<" ", "O", "r", "d", "e", "r", " ", "C", "r", "e", "a", "t", "e", "d">>), JNull),
      RawFilter(JStr(<<"m", "i", "r", "a", "k", "l", "-", "r", "e", "f", "u", "n", "d">>), JStr(<<"R", "e", "f", "u", "n", "d", " ", "C", "r", "e", "a", "t", "e", "d">>), JStr(<<"n">>)),
      RawFilter(JStr(<<"v", "e", "r", "t", "e", "x">>), JStr(<<" ">>), JNull),
      RawFilter(JStr(<<"p", "r", "o", "d", "u", "c", "e", "r", "-", "i", "n", "p", "u", "t">>), JStr(<<"o", "r", "d", "e", "r", " ", "c", "r", "e", "a", "t", "e", "d">>), JNull),
      RawFilter(JStr(<<"O", "t", "h", "e", "r", " ", "S", "t", "u", "f", "f">>), JStr(<<"o", "r", "d", "e", "r", " ", "c", "r", "e", "a", "t", "e", "d">>), JStr(<<"z", "z", "z">>))>>
RunDate == <<"2", "0", "2", "5", "-", "0", "7", "-", "2", "5", "-", "1", "0", "1", "5", "0", "0">>
\* what a file written by an earlier run holds
OldFile == [kind |-> "old"]
\* the output root before the run: empty, or with files of an earlier run
Before ==
    {<<>>,
     [q \in {PathOf(<<RunDate, <<"e", "x", "p", "e", "c", "t", "e", "d", "-", "o", "u", "t", "p", "u", "t">>, <<"m", "i", "r", "a", "k", "l">>>>, <<"m", "i", "r", "a", "k", "l", "_", "o", "r", "d", "e", "r", "_", "I", "N", "V", "1", ".", "j", "s", "o", "n">>),
             PathOf(<<RunDate, <<"e", "x", "p", "e", "c", "t", "e", "d", "-", "o", "u", "t", "p", "u", "t">>, <<"m", "i", "r", "a", "k", "l">>>>, <<"m", "i", "r", "a", "k", "l", "_", "o", "r", "d", "e", "r", "_", "I", "N", "V", "1", "_", "2", ".", "j", "s", "o", "n">>)}
         |-> OldFile]}

InitScan ==
    /\ cfg \in {[filters |-> ConfigFilters, fresh |-> b] : b \in BOOLEAN}
    /\ input_date = JStr(RunDate)
    /\ files \in {FilesOf(p1, p2, p3, desc) :
                     p1 \in Payloads, p2 \in Payloads, p3 \in Payloads,
                     desc \in {<<"O", "R", "D", "E", "R", " ", "C", "R", "E", "A", "T", "E", "D">>, <<"o", "t", "h", "e", "r">>, <<" ">>}}
    /\ fs \in Before
    /\ scan = [NoScan EXCEPT !.pc = "start"]
    /\ stats = NoStats
    /\ per_folder_hits = <<>>
    /\ localtz = 0
    /\ MapIdle
    /\ SumIdle
    /\ CallsIdle
    /\ ApiIdle
    /\ DecIdle
    /\ DateIdle
    /\ FindIdle
    /\ GcsIdle

\* ---- process
\* date_prefix, as the one directory of target_root below the output root
DateDir == IF JTruthy(input_date) THEN <<safe_folder(input_date.str)>> ELSE <<>>
Under(dir, root) == Len(dir) >= Len(root) /\ SubSeq(dir, 1, Len(root)) = root
\* shutil.rmtree(root)
Rmtree(files_, root) == [q \in {x \in DOMAIN files_ : ~Under(x.dir, root)} |-> files_[q]]

\* process up to its loop over the input files: the run's folders, fresh, the
\* filters and the counters
Started(filters) ==
    /\ scan' = [NoScan EXCEPT !.pc = "file", !.fi = 1, !.filters = filters]
    /\ per_folder_hits' = [f \in {filters[i].folder : i \in DOMAIN filters} |-> 0]
Start ==
    /\ scan.pc = "start"
    /\ fs' = IF cfg.fresh THEN Rmtree(fs, DateDir) ELSE fs
    /\ Started(BuildFilters(cfg.filters))
    /\ stats' = NoStats
    /\ UNCHANGED <<mapVars, sumVars, callsVars, localtz, gcsVars, findVars, dateVars, apiVars, decVars, cfg, input_date, files>>

\* one pass of `for path_str in sorted(glob.glob(input_glob))` up to its loops
\* over the hits: a path that is no file is skipped, a file that is not JSON
\* is counted and skipped
ScanFile ==
    /\ scan.pc = "file"
    /\ scan.fi <= Len(files)
    /\ scan' = IF files[scan.fi].kind = "ok"
               THEN [scan EXCEPT !.pc = "record", !.ri = 1]
               ELSE [scan EXCEPT !.fi = @ + 1]
    /\ stats' = IF files[scan.fi].kind = "dir" THEN stats
                ELSE [stats EXCEPT !.files_scanned = @ + 1]
    /\ UNCHANGED <<mapVars, sumVars, callsVars, localtz, gcsVars, findVars, dateVars, apiVars, decVars, cfg, input_date, files, fs,
                   per_folder_hits>>

\* one pass of the loops over the hits of the file (the responses and their
\* hits, in order) up to the loop over the filters; a hit without payloads is
\* skipped; after the last hit the next file is taken
ScanRecord ==
    /\ scan.pc = "record"
    /\ scan' = IF scan.ri > Len(files[scan.fi].hits)
               THEN [scan EXCEPT !.pc = "file", !.fi = @ + 1]
               ELSE IF as_list(files[scan.fi].hits[scan.ri].AuditAttachmentsData) = <<>>
               THEN [scan EXCEPT !.ri = @ + 1]
               ELSE [scan EXCEPT !.pc = "filter", !.ki = 1]
    /\ UNCHANGED <<mapVars, sumVars, callsVars, localtz, gcsVars, findVars, dateVars, apiVars, decVars, cfg, input_date, files, fs,
                   stats, per_folder_hits>>

\* one pass of `for flt in filters` up to the loop over the payloads
ScanFilter ==
    /\ scan.pc = "filter"
    /\ scan' = IF scan.ki > Len(scan.filters)
               THEN [scan EXCEPT !.pc = "record", !.ri = @ + 1]
               ELSE IF record_matches(files[scan.fi].hits[scan.ri],
                                      scan.filters[scan.ki].want_desc_l,
                                      scan.filters[scan.ki].want_name_l)
               THEN [scan EXCEPT !.pc = "payload", !.pi = 1]
               ELSE [scan EXCEPT !.ki = @ + 1]
    /\ UNCHANGED <<mapVars, sumVars, callsVars, localtz, gcsVars, findVars, dateVars, apiVars, decVars, cfg, input_date, files, fs,
                   stats, per_folder_hits>>

\* folder_path of a filter
FolderPath(flt) ==
    IF flt.folder_key = <<"p", "r", "o", "d", "u", "c", "e", "r", "-", "i", "n", "p", "u", "t">> THEN DateDir \o <<flt.folder>>
    ELSE DateDir \o <<<<"e", "x", "p", "e", "c", "t", "e", "d", "-", "o", "u", "t", "p", "u", "t">>,
                      IF flt.folder_key \in {<<"m", "i", "r", "a", "k", "l", "-", "o", "r", "d", "e", "r">>, <<"m", "i", "r", "a", "k", "l", "-", "r", "e", "f", "u", "n", "d">>}
                      THEN <<"m", "i", "r", "a", "k", "l">> ELSE flt.folder>>
\* out_path before make_unique
OutPath(flt, src) ==
    PathOf(FolderPath(flt),
           safe_filename(flt.prefix \o <<"_">>
                         \o OrText(SelectSeq(Strip(extract_invoice(src)),
                                             LAMBDA c : c \in SafeChars), <<"u", "n", "k", "n", "o", "w", "n">>)
                         \o <<".">> \o flt.ext))
\* the contents of the files written: json.dumps(mapped), the warning line
\* followed by the payload, the payload; each ends with a newline
JsonFile(mapped) == [kind |-> "json", value |-> mapped]
WarningFile(e, pl) == [kind |-> "warning", exc |-> e, payload |-> pl]
RawFile(pl) == [kind |-> "raw", payload |-> pl]
\* variant: no try/except around the mapping
map_uncaught(r, pl) ==
    IF r.exc = "" THEN [raised |-> "", content |-> JsonFile(r.value)]
    ELSE [raised |-> r.exc, content |-> JNull]
\* the try/except around the mapping: r is what the mapper returned or raised
map_or_warn(r, pl) ==
    IF r.exc = "" THEN [raised |-> "", content |-> JsonFile(r.value)]
    ELSE [raised |-> "", content |-> WarningFile(r.exc, pl)]
ContentFor(flt, pl) ==
    IF flt.folder_key \in {<<"m", "i", "r", "a", "k", "l", "-", "o", "r", "d", "e", "r">>, <<"m", "i", "r", "a", "k", "l", "-", "r", "e", "f", "u", "n", "d">>}
    THEN map_or_warn(map_mirakl_xml_to_template(
                        pl, IF flt.folder_key = <<"m", "i", "r", "a", "k", "l", "-", "o", "r", "d", "e", "r">> THEN "order" ELSE "refund",
                        localtz), pl)
    ELSE [raised |-> "", content |-> RawFile(pl)]
\* the file is written and counted, or the exception leaves process
Written(out_path, w, flt) ==
    IF w.raised # ""
    THEN /\ scan' = [scan EXCEPT !.pc = "aborted"]
         /\ UNCHANGED <<fs, stats, per_folder_hits>>
    ELSE /\ fs' = [q \in DOMAIN fs \cup {out_path} |->
                      IF q = out_path THEN w.content ELSE fs[q]]
         /\ stats' = [stats EXCEPT !.hits = @ + 1,
                                   !.written_files = Append(@, out_path)]
         /\ per_folder_hits' = [per_folder_hits EXCEPT ![flt.folder] = @ + 1]
         /\ scan' = [scan EXCEPT !.pi = @ + 1]
\* one pass of `for pl in payloads`; after the last payload the next filter
\* is taken
WritePayload ==
    /\ scan.pc = "payload"
    /\ IF scan.pi > Len(as_list(files[scan.fi].hits[scan.ri].AuditAttachmentsData))
       THEN /\ scan' = [scan EXCEPT !.pc = "filter", !.ki = @ + 1]
            /\ UNCHANGED <<fs, stats, per_folder_hits>>
       ELSE Written(make_unique(DOMAIN fs, OutPath(scan.filters[scan.ki],
                                                   files[scan.fi].hits[scan.ri])),
                    ContentFor(scan.filters[scan.ki],
                               as_list(files[scan.fi].hits[scan.ri].AuditAttachmentsData)[scan.pi]),
                    scan.filters[scan.ki])
    /\ UNCHANGED <<mapVars, sumVars, callsVars, localtz, gcsVars, findVars, dateVars, apiVars, decVars, cfg, input_date, files>>

\* after the last file: the summary is printed and stats returned
Finish ==
    /\ scan.pc = "file"
    /\ scan.fi > Len(files)
    /\ scan' = [scan EXCEPT !.pc = "done"]
    /\ UNCHANGED <<mapVars, sumVars, callsVars, localtz, gcsVars, findVars, dateVars, apiVars, decVars, cfg, input_date, files, fs,
                   stats, per_folder_hits>>

NextScan == Start \/ ScanFile \/ ScanRecord \/ ScanFilter \/ WritePayload \/ Finish

SpecScan == InitScan /\ [][NextScan]_vars

(***************************************************************************)
(* The endpoint (src/api.py): GET /si-log-extract/{anything}               *)
(***************************************************************************)
\* \w of the regular expressions, on the characters of the model
IsWord(c) == IsDigit(c) \/ c \in Range(LowerChars) \/ c \in Range(UpperChars) \/ c = "_"
\* \b at the gap before position i of s
Boundary(s, i) ==
    (i - 1 \in DOMAIN s /\ IsWord(s[i - 1])) # (i \in DOMAIN s /\ IsWord(s[i]))
\* \d{4}-\d{2}-\d{2} at position i of s
DateShapeAt(s, i) ==
    /\ i + 9 <= Len(s)
    /\ DigitsAt(s, i, i + 3) /\ s[i + 4] = "-"
    /\ DigitsAt(s, i + 5, i + 6) /\ s[i + 7] = "-"
    /\ DigitsAt(s, i + 8, i + 9)
\* DATE_RE matches at position i of s
DateReAt(s, i) == DateShapeAt(s, i) /\ Boundary(s, i) /\ Boundary(s, i + 10)
\* DATE_RE.findall(s) from position i on: the matches from left to right,
\* each search starting where the last match ended
RECURSIVE FindAllFrom(_, _)
FindAllFrom(s, i) ==
    IF i + 9 > Len(s) THEN <<>>
    ELSE IF DateReAt(s, i) THEN <<SubSeq(s, i, i + 9)>> \o FindAllFrom(s, i + 10)
    ELSE FindAllFrom(s, i + 1)
DATE_RE(s) == FindAllFrom(s, 1)
\* datetime.strptime(token, "%Y-%m-%d") does not raise ValueError
Strptime(token) == ValidDate(Num(token, 1, 4), Num(token, 6, 7), Num(token, 9, 10))
\* for token in reversed(matches): the first one strptime accepts
RECURSIVE LastValid(_, _)
LastValid(matches, k) ==
    IF k = 0 THEN [status |-> 400, date |-> <<>>]
    ELSE IF Strptime(matches[k]) THEN [status |-> 0, date |-> matches[k]]
    ELSE LastValid(matches, k - 1)
\* extract_date_from_any(s): the token returned, or the HTTPException raised
DateAmong(matches) == LastValid(matches, Len(matches))
extract_date_from_any(s) == DateAmong(DATE_RE(s))

\* the parts the path segments of the requests are made of
UriParts == {<<"2", "0", "2", "5", "-", "0", "7", "-", "2", "5">>, <<"2", "0", "2", "4", "-", "0", "2", "-", "2", "9">>, <<"2", "0", "2", "3", "-", "0", "2", "-", "2", "9">>, <<"2", "0", "2", "5", "-", "1", "3", "-", "4", "0">>,
             <<"0", "0", "0", "0", "-", "0", "1", "-", "0", "1">>, <<"/">>, <<"_">>, <<"x">>, <<"7">>, <<"-">>}
MaxParts == 3
RECURSIVE PartsUpTo(_)
PartsUpTo(n) ==
    IF n = 0 THEN {<<>>}
    ELSE PartsUpTo(n - 1) \cup {p \o t : p \in UriParts, t \in PartsUpTo(n - 1)}
Uris == PartsUpTo(MaxParts)
\* datetime.now(ZoneInfo("Asia/Kolkata")).strftime("%H%M%S")
Clocks == {<<"0", "0", "0", "0", "0", "0">>, <<"2", "3", "5", "9", "5", "9">>}

InitApi ==
    /\ localtz = 0
    /\ req \in {[NoRequest EXCEPT !.pc = "request", !.anything = u] : u \in Uris}
    /\ MapIdle
    /\ SumIdle
    /\ CallsIdle
    /\ ScanIdle
    /\ DecIdle
    /\ DateIdle
    /\ FindIdle
    /\ GcsIdle

\* date_str = extract_date_from_any(anything), an HTTPException being the
\* response; ts = date_str + "-" + the time of day
Dated(r, clock) ==
    IF r.status = 400 THEN [req EXCEPT !.pc = "responded", !.status = 400]
    ELSE [req EXCEPT !.pc = "dated", !.date = r.date \o <<"-">> \o clock]
ApiExtract ==
    /\ req.pc = "request"
    /\ \E clock \in Clocks : req' = Dated(extract_date_from_any(req.anything), clock)
    /\ UNCHANGED <<mapVars, sumVars, callsVars, scanVars, localtz, gcsVars, findVars, dateVars, decVars>>

\* main_mod.main(ts), and process() when it returns no paths: a failure of
\* the run is the response 500, anything else the response 200
ApiRun ==
    /\ req.pc = "dated"
    /\ \E status \in {200, 500} :
          req' = [req EXCEPT !.pc = "responded", !.status = status, !.ran = TRUE]
    /\ UNCHANGED <<mapVars, sumVars, callsVars, scanVars, localtz, gcsVars, findVars, dateVars, decVars>>

NextApi == ApiExtract \/ ApiRun

SpecApi == InitApi /\ [][NextApi]_vars

(***************************************************************************)
(* A call of _to_decimal (src/transformer.py)                              *)
(***************************************************************************)
\* the characters the argument is made of, and its greatest length
DecChars == {"0", "1", "5", ".", "-", "+", "e", "E", " ", "x"}
MaxText == 4
DecTexts == SeqsUpTo(DecChars, MaxText)

InitDec ==
    /\ localtz = 0
    /\ dec \in {[NoDecCall EXCEPT !.pc = "call", !.s = t] : t \in DecTexts}
    /\ MapIdle
    /\ SumIdle
    /\ CallsIdle
    /\ ScanIdle
    /\ ApiIdle
    /\ DateIdle
    /\ FindIdle
    /\ GcsIdle

DecCall ==
    /\ dec.pc = "call"
    /\ dec' = [dec EXCEPT !.pc = "done", !.value = _to_decimal(dec.s)]
    /\ UNCHANGED <<mapVars, sumVars, callsVars, scanVars, localtz, gcsVars, findVars, dateVars, apiVars>>

NextDec == DecCall

SpecDec == InitDec /\ [][NextDec]_vars

(***************************************************************************)
(* A call of _to_epoch_ms and of _to_yyyymmdd_int on one text              *)
(* (src/transformer.py)                                                    *)
(***************************************************************************)
\* all-digit texts: of every length up to 16, dates and non-dates of 8
\* digits, seconds and milliseconds
Prefixes(t) == {SubSeq(t, 1, n) : n \in 1..Len(t)}
DigitTexts ==
    Prefixes(<<"1", "7", "5", "5", "6", "5", "3", "1", "1", "7", "0", "0", "0", "1", "2", "3">>)
    \cup {<<"2", "0", "2", "5", "0", "7", "2", "5">>, <<"2", "0", "2", "5", "1", "3", "4", "0">>, <<"2", "0", "2", "4", "0", "2", "2", "9">>, <<"2", "0", "2", "3", "0", "2", "2", "9">>, <<"0", "0", "0", "0", "0", "0", "0", "0">>,
          <<"2", "0", "2", "5", "0", "7", "2", "5", "1", "0", "1">>, <<"2", "0", "2", "5", "0", "7", "2", "5", "1", "2", "4">>, <<"0", "0", "0", "0", "0", "0", "0", "0", "0", "0", "0", "0", "0">>, <<"9", "9", "9", "9", "9", "9", "9", "9", "9", "9">>}
\* ISO-8601 texts: a date, alone or with a time and then with or without a
\* zone
IsoDates == {<<"2", "0", "2", "5", "-", "0", "7", "-", "2", "5">>, <<"2", "0", "2", "4", "-", "0", "2", "-", "2", "9">>, <<"2", "0", "2", "3", "-", "0", "2", "-", "2", "9">>, <<"1", "9", "7", "0", "-", "0", "1", "-", "0", "1">>, <<"2", "0", "2", "5", "-", "1", "3", "-", "4", "0">>}
IsoTimes == {<<"T", "1", "0", ":", "0", "0">>, <<"T", "1", "0", ":", "0", "0", ":", "0", "0">>, <<"T", "2", "3", ":", "3", "0", ":", "0", "0">>, <<" ", "0", "1", ":", "0", "0", ":", "0", "0">>, <<"T", "2", "4", ":", "0", "0", ":", "0", "0">>}
IsoZones == {<<>>, <<"Z">>, <<"+", "0", "2", ":", "0", "0">>, <<"-", "0", "2", ":", "0", "0">>, <<"+", "0", "5", ":", "3", "0">>}
IsoTexts ==
    IsoDates \cup {d \o t \o z : d \in IsoDates, t \in IsoTimes, z \in IsoZones}
OtherTexts ==
    {<<>>, <<" ", " ">>, <<"g", "a", "r", "b", "a", "g", "e">>, <<" ", "2", "0", "2", "5", "0", "7", "2", "5", " ">>, <<" ", "2", "0", "2", "5", "-", "0", "7", "-", "2", "5", "T", "1", "0", ":", "0", "0", ":", "0", "0", "Z", " ">>,
     <<"2", "0", "2", "5", "-", "0", "7", "-", "2", "5", "T", "1", "0", ":", "0", "0", ":", "0", "0", "z">>, <<"2", "0", "2", "5", "/", "0", "7", "/", "2", "5">>, <<"2", "5", "-", "0", "7", "-", "2", "0", "2", "5">>}
DateInputs == DigitTexts \cup IsoTexts \cup OtherTexts

InitDate ==
    /\ localtz \in LocalOffsets
    /\ datecall \in {[NoDateCall EXCEPT !.pc = "call", !.s = t] : t \in DateInputs}
    /\ MapIdle
    /\ SumIdle
    /\ CallsIdle
    /\ ScanIdle
    /\ ApiIdle
    /\ DecIdle
    /\ FindIdle
    /\ GcsIdle

DateCall ==
    /\ datecall.pc = "call"
    /\ datecall' = [datecall EXCEPT !.pc = "done",
                                    !.ms = _to_epoch_ms(datecall.s, localtz),
                                    !.ymd = _to_yyyymmdd_int(datecall.s)]
    /\ UNCHANGED <<mapVars, sumVars, callsVars, scanVars, localtz, gcsVars, findVars, apiVars, decVars>>

NextDate == DateCall

SpecDate == InitDate /\ [][NextDate]_vars

(***************************************************************************)
(* A call of _find_first and of _find_all on one element and path          *)
(* (src/transformer.py)                                                    *)
(***************************************************************************)
\* an element with a namespace; the text of an element tells its place in
\* the document
Node(ns, name, kids) == [tag |-> Tag(ns, name), text |-> <<>>, kids |-> kids]
RECURSIVE Placed(_, _)
Placed(el, place) ==
    [el EXCEPT !.text = place,
               !.kids = [i \in DOMAIN el.kids |-> Placed(el.kids[i], Append(place, i))]]
\* the children the root may have: childless, with children of both names,
\* with namespaces, with children of one name only
Level1 ==
    {Node("", <<"a">>, <<>>),
     Node("", <<"a">>, <<Node("", <<"b">>, <<>>), Node("", <<"a">>, <<>>)>>),
     Node("", <<"a">>, <<Node("n", <<"b">>, <<>>), Node("", <<"b">>, <<>>)>>),
     Node("n", <<"a">>, <<Node("", <<"a">>, <<>>), Node("m", <<"b">>, <<>>)>>),
     Node("", <<"b">>, <<Node("", <<"b">>, <<>>)>>),
     Node("", <<"a", "b">>, <<Node("", <<"b">>, <<>>)>>)}
MaxKids == 2
Trees == {Placed(Node("", <<"r">>, kids), <<>>) : kids \in SeqsUpTo(Level1, MaxKids)}
\* the paths: texts of slashes and names, some in white space
MaxPath == 5
PathChars == {"a", "b", "/"}
Paths == SeqsUpTo(PathChars, MaxPath)
         \cup {<<" ", "a", "/", "b", " ">>, <<" ", "/", "a", "/", "b", "/", " ">>,
               <<"\t", "a", "\n">>}

InitFind ==
    /\ localtz = 0
    /\ findcall \in {[NoFindCall EXCEPT !.pc = "call", !.root = r, !.path = p] :
                        r \in Trees, p \in Paths}
    /\ MapIdle
    /\ SumIdle
    /\ CallsIdle
    /\ ScanIdle
    /\ ApiIdle
    /\ DecIdle
    /\ DateIdle
    /\ GcsIdle

\* _find_first(root, path) and _find_all(root, path), path being split into
\* segs
Found(root, segs) ==
    [findcall EXCEPT !.pc = "done",
                     !.first = _find_first(root, segs),
                     !.all = _find_all(root, segs)]
FindCall ==
    /\ findcall.pc = "call"
    /\ findcall' = Found(findcall.root, SplitPath(findcall.path))
    /\ UNCHANGED <<mapVars, sumVars, callsVars, scanVars, localtz, gcsVars, apiVars, decVars,
                   dateVars>>

NextFind == FindCall

SpecFind == InitFind /\ [][NextFind]_vars
(***************************************************************************)
(* The bucket bridges: run_with_gcs (src/main.py) and                      *)
(* run_with_optional_gcs (src/gcs_utils.py)                                *)
(***************************************************************************)
\* s.startswith("gs://")
StartsWithGs(s) == Len(s) >= 5 /\ SubSeq(s, 1, 5) = <<"g", "s", ":", "/", "/">>
\* bool(_GS_RE.match(s or "")), _GS_RE = ^gs://([^/]+)/?(.*)$ : a bucket
\* name of one character or more, and no line break after it except a last one
is_gs_uri(s) ==
    /\ s # NoText
    /\ Len(s) >= 6
    /\ StartsWithGs(s)
    /\ s[6] # "/"
    /\ \A i \in 6..Len(s) : \A j \in (i + 1)..(Len(s) - 1) :
          s[i] = "/" => s[j] # "\n"
\* the objects of the bucket below the prefix, and what process_fn writes
ObjectKey(dir, name) == [dir |-> dir, name |-> name]
ConfigKey == ObjectKey("", "config.json")
RemoteKeys == {ConfigKey, ObjectKey("in", "a.json"), ObjectKey("out", "x.json")}
NewKey == ObjectKey("out", "y.json")
\* the files of `files` with a key of `keys` copied over those of `onto`
Copied(files_, keys, onto) ==
    [k \in DOMAIN onto \cup (keys \cap DOMAIN files_) |->
        IF k \in keys \cap DOMAIN files_ THEN files_[k] ELSE onto[k]]
\* the objects below the prefix that remain when those of `keys` are deleted
Deleted(objects, keys) == [k \in DOMAIN objects \ keys |-> objects[k]]
Below(objects, dir) == {k \in DOMAIN objects : k.dir = dir}

\* the bucket below the prefix (or of the URIs of the config) at the start
Remotes == UNION {[S -> {"old"}] : S \in SUBSET RemoteKeys}
RootUris == {NoText, <<>>, <<"/", "d", "a", "t", "a", "/", "r", "u", "n">>, <<"g", "s", ":", "/", "/", "b", "/", "p">>, <<" ", "g", "s", ":", "/", "/", "b", "/", "p">>, <<"g", "s", ":", "/", "/">>}
ConfigPaths == {<<"g", "s", ":", "/", "/", "b", "/", "c", "o", "n", "f", "i", "g", ".", "j", "s", "o", "n">>, <<"c", "o", "n", "f", "i", "g", ".", "j", "s", "o", "n">>}
Configs == [input_glob : {<<"g", "s", ":", "/", "/", "b", "/", "i", "n", "/", "*", ".", "j", "s", "o", "n">>, <<"i", "n", "/", "*", ".", "j", "s", "o", "n">>},
            output : {<<"g", "s", ":", "/", "/", "b", "/", "o", "u", "t">>, <<"o", "u", "t">>},
            fresh : BOOLEAN]
InitGcs ==
    /\ gcs \in {[NoGcs EXCEPT !.pc = "start", !.fn = "run_with_gcs", !.root_uri = u,
                              !.on_path = g, !.remote0 = r, !.remote = r] :
                   u \in RootUris, g \in BOOLEAN, r \in Remotes}
          \cup {[NoGcs EXCEPT !.pc = "start", !.fn = "run_with_optional_gcs",
                              !.config_path = p, !.has_local = h, !.config = c,
                              !.remote0 = r, !.remote = r] :
                   p \in ConfigPaths, h \in BOOLEAN, c \in Configs, r \in Remotes}
    /\ localtz = 0
    /\ MapIdle
    /\ SumIdle
    /\ CallsIdle
    /\ ScanIdle
    /\ ApiIdle
    /\ DecIdle
    /\ DateIdle
    /\ FindIdle

\* an exception leaves the bridge while it is at step `at`
Raises(g, exc, at) == [g EXCEPT !.pc = "raised", !.exc = exc, !.at = at]
\* an external command or client call is made
Issues(g, call) == [g EXCEPT !.issued = Append(@, call)]
\* _gsutil_ok(): the cached answer, or gsutil is looked up on PATH
gsutil_ok(g) == IF g.available # "none" THEN g.available = "yes" ELSE g.on_path
Cached(g) == [g EXCEPT !.available = IF gsutil_ok(g) THEN "yes" ELSE "no"]

\* ---- run_with_gcs
\* up to the call of _rsync_down: ROOT_PATH is checked, the mirror is made
RunWithGcs ==
    /\ gcs.pc = "start"
    /\ gcs.fn = "run_with_gcs"
    /\ gcs' = IF gcs.root_uri = NoText \/ gcs.root_uri = <<>>
              THEN Raises(gcs, "RuntimeError", "root")
              ELSE IF ~StartsWithGs(gcs.root_uri)
              THEN Raises(gcs, "RuntimeError", "root")
              ELSE [gcs EXCEPT !.pc = "rsync_down"]
    /\ UNCHANGED <<mapVars, sumVars, callsVars, scanVars, apiVars, decVars, dateVars,
                   findVars, localtz>>

\* _rsync_down and the test for config.json in the mirror: ls counts the
\* objects if it can, rsync copies them or fails part of the way
RsyncDown ==
    /\ gcs.pc = "rsync_down"
    /\ \E ls_ok \in BOOLEAN : \E ok \in BOOLEAN : \E part \in SUBSET DOMAIN gcs.remote :
          gcs' = IF ~gsutil_ok(gcs)
                 THEN Raises(Cached(gcs), "RuntimeError", "download")
                 ELSE IF ~ok
                 THEN Raises([Issues(Cached(gcs), "rsync_down") EXCEPT
                                 !.local = Copied(gcs.remote, part, <<>>)],
                             "CalledProcessError", "download")
                 ELSE IF ConfigKey \notin DOMAIN gcs.remote
                 THEN Raises([Issues(Cached(gcs), "rsync_down") EXCEPT
                                 !.local = gcs.remote],
                             "FileNotFoundError", "config")
                 ELSE [Issues(Cached(gcs), "rsync_down") EXCEPT
                          !.pc = "process",
                          !.local = gcs.remote,
                          !.downloaded = IF ls_ok THEN Cardinality(DOMAIN gcs.remote)
                                         ELSE 0]
    /\ UNCHANGED <<mapVars, sumVars, callsVars, scanVars, apiVars, decVars, dateVars,
                   findVars, localtz>>

\* _rsync_up and the return: rsync copies the mirror or fails part of the way
RsyncUp ==
    /\ gcs.pc = "rsync_up"
    /\ \E ok \in BOOLEAN : \E part \in SUBSET DOMAIN gcs.local :
          gcs' = IF ~gsutil_ok(gcs)
                 THEN Raises(Cached(gcs), "RuntimeError", "upload")
                 ELSE IF ~ok
                 THEN Raises([Issues(gcs, "rsync_up") EXCEPT
                                 !.remote = Copied(gcs.local, part, gcs.remote)],
                             "CalledProcessError", "upload")
                 ELSE [Issues(gcs, "rsync_up") EXCEPT
                          !.pc = "returned",
                          !.remote = Copied(gcs.local, DOMAIN gcs.local, gcs.remote),
                          !.uploaded = Cardinality(DOMAIN gcs.local)]
    /\ UNCHANGED <<mapVars, sumVars, callsVars, scanVars, apiVars, decVars, dateVars,
                   findVars, localtz>>

\* ---- run_with_optional_gcs
\* neither the path of the config nor its input_glob or output is gs://
AllLocal(g) ==
    /\ ~is_gs_uri(g.config_path)
    /\ ~is_gs_uri(g.config.input_glob)
    /\ ~is_gs_uri(g.config.output)
\* up to the first call: a local config must exist, and one without gs://
\* in it goes to process_fn at once
RunWithOptionalGcs ==
    /\ gcs.pc = "start"
    /\ gcs.fn = "run_with_optional_gcs"
    /\ gcs' = IF ~is_gs_uri(gcs.config_path) /\ ~gcs.has_local
              THEN Raises(gcs, "FileNotFoundError", "config")
              ELSE IF AllLocal(gcs) THEN [gcs EXCEPT !.pc = "process"]
              ELSE [gcs EXCEPT !.pc = "load"]
    /\ UNCHANGED <<mapVars, sumVars, callsVars, scanVars, apiVars, decVars, dateVars,
                   findVars, localtz>>

\* 1) the config is read from the bucket, or from the local file
LoadConfig ==
    /\ gcs.pc = "load"
    /\ \E ok \in BOOLEAN :
          gcs' = IF ~is_gs_uri(gcs.config_path) THEN [gcs EXCEPT !.pc = "inputs"]
                 ELSE IF ok /\ ConfigKey \in DOMAIN gcs.remote
                 THEN [Issues(gcs, "read_text") EXCEPT !.pc = "inputs"]
                 ELSE Raises(Issues(gcs, "read_text"), "GoogleAPIError", "download")
    /\ UNCHANGED <<mapVars, sumVars, callsVars, scanVars, apiVars, decVars, dateVars,
                   findVars, localtz>>

\* 2) the objects that match a gs:// input_glob are listed and downloaded
DownloadInputs ==
    /\ gcs.pc = "inputs"
    /\ \E ok \in BOOLEAN : \E part \in SUBSET Below(gcs.remote, "in") :
          gcs' = IF ~is_gs_uri(gcs.config.input_glob) THEN [gcs EXCEPT !.pc = "output"]
                 ELSE IF ~ok
                 THEN Raises([Issues(gcs, "download_to_dir") EXCEPT
                                 !.local = Copied(gcs.remote, part, <<>>)],
                             "GoogleAPIError", "download")
                 ELSE [Issues(gcs, "download_to_dir") EXCEPT
                          !.pc = "output",
                          !.local = Copied(gcs.remote, Below(gcs.remote, "in"), <<>>),
                          !.downloaded = Cardinality(Below(gcs.remote, "in"))]
    /\ UNCHANGED <<mapVars, sumVars, callsVars, scanVars, apiVars, decVars, dateVars,
                   findVars, localtz>>

\* 3) a gs:// output is replaced by the local one and, if fresh, the objects
\* below it are deleted: a failure on the way is printed and passed over
RewriteOutput ==
    /\ gcs.pc = "output"
    /\ \E ok \in BOOLEAN : \E part \in SUBSET Below(gcs.remote, "out") :
          gcs' = IF ~(is_gs_uri(gcs.config.output) /\ gcs.config.fresh)
                 THEN [gcs EXCEPT !.pc = "process"]
                 ELSE [Issues(gcs, "delete_prefix") EXCEPT
                          !.pc = "process",
                          !.remote = Deleted(gcs.remote,
                                             IF ok THEN Below(gcs.remote, "out")
                                             ELSE part)]
    /\ UNCHANGED <<mapVars, sumVars, callsVars, scanVars, apiVars, decVars, dateVars,
                   findVars, localtz>>

\* 5) the local output folder is uploaded below a gs:// output, and the
\* stats are returned
UploadDir ==
    /\ gcs.pc = "upload"
    /\ \E ok \in BOOLEAN : \E part \in SUBSET Below(gcs.local, "out") :
          gcs' = IF ~is_gs_uri(gcs.config.output) THEN [gcs EXCEPT !.pc = "returned"]
                 ELSE IF ~ok
                 THEN Raises([Issues(gcs, "upload_dir") EXCEPT
                                 !.remote = Copied(gcs.local, part, gcs.remote)],
                             "GoogleAPIError", "upload")
                 ELSE [Issues(gcs, "upload_dir") EXCEPT
                          !.pc = "returned",
                          !.remote = Copied(gcs.local, Below(gcs.local, "out"),
                                            gcs.remote),
                          !.uploaded = Cardinality(Below(gcs.local, "out"))]
    /\ UNCHANGED <<mapVars, sumVars, callsVars, scanVars, apiVars, decVars, dateVars,
                   findVars, localtz>>

\* ---- both bridges
\* process_fn(local_cfg): it returns its stats or raises, after writing its
\* output below the local output folder or before
ProcessFn ==
    /\ gcs.pc = "process"
    /\ \E returns \in BOOLEAN : \E wrote \in BOOLEAN :
          gcs' = [Issues(gcs, "process_fn") EXCEPT
                     !.local = IF returns \/ wrote
                               THEN Copied([k \in {NewKey} |-> "new"], {NewKey}, gcs.local)
                               ELSE gcs.local,
                     !.processed = IF returns THEN "returned" ELSE "raised",
                     !.exc = IF returns THEN "" ELSE "Exception",
                     !.at = IF returns THEN "" ELSE "process",
                     !.pc = IF ~returns THEN "raised"
                            ELSE IF gcs.fn = "run_with_gcs" THEN "rsync_up"
                            ELSE IF AllLocal(gcs) THEN "returned"
                            ELSE "upload"]
    /\ UNCHANGED <<mapVars, sumVars, callsVars, scanVars, apiVars, decVars, dateVars,
                   findVars, localtz>>

NextGcs ==
    \/ RunWithGcs \/ RsyncDown \/ RsyncUp
    \/ RunWithOptionalGcs \/ LoadConfig \/ DownloadInputs \/ RewriteOutput \/ UploadDir
    \/ ProcessFn

SpecGcs == InitGcs /\ [][NextGcs]_vars
(***************************************************************************)
(* Properties of the mapper call                                           *)
(***************************************************************************)
Root == xml_text.root
\* the call has returned or raised, on a well-formed document
Done == pc = "done" /\ xml_text.wellformed
Returned == Done /\ result.exc = ""
Hdr == result.value.InvoiceHeader
Template == IF mode = "order" THEN ORDER_TEMPLATE_JSON ELSE REFUND_TEMPLATE_JSON

\* the elements of the document at one of the paths
At(paths) == Concat([i \in DOMAIN paths |-> _find_all(Root, paths[i])])
WrapperEls == IF mode = "order" THEN At(<<<<"MiraklOrderRefund", "Order">>, <<"Order">>>>)
              ELSE At(<<<<"MiraklOrderRefund", "Refund">>, <<"Refund">>>>)
FeedEls == At(<<<<"body", "orders", "order">>, <<"orders", "order">>>>)
InvoiceEls == At(<<<<"InvoiceDetail", "InvoiceHeader">>, <<"InvoiceHeader">>>>)
HasWrapper == WrapperEls # <<>>
HasFeed == FeedEls # <<>>
HasInvoice == InvoiceEls # <<>>

\* the texts of the elements at path below one of the elements els
FieldOf(els, path) == {_text(_find_first(els[i], path)) : i \in DOMAIN els}

\* C1: the call never raises on a well-formed document, whatever the dialect
\* and whatever the texts of its amount, date and id elements.
C1_NeverRaises == Done => result.exc = ""

\* C2: first match wins, in the order wrapper element for the mode, feed-body
\* order (order mode only), InvoiceHeader: the result is built from the first
\* of these the document has, and never from a feed-body order in refund mode.
C2_DialectPriority ==
    Done =>
       /\ loc.dialect = IF HasWrapper THEN "wrapper"
                        ELSE IF mode = "order" /\ HasFeed THEN "feed"
                        ELSE IF HasInvoice THEN "invoice"
                        ELSE "none"
       /\ result.exc = "" /\ loc.dialect # "none" =>
             Hdr.InvoiceNo \in
                IF HasWrapper THEN FieldOf(WrapperEls, <<"transaction_number">>)
                ELSE IF mode = "order" /\ HasFeed
                THEN FieldOf(FeedEls, <<"transaction_number">>)
                ELSE FieldOf(InvoiceEls, <<"InvoiceNo">>)
       /\ mode = "refund" => loc.dialect # "feed"

\* C3: a document with no wrapper element for the mode, no feed-body order
\* (order mode) and no InvoiceHeader gives the mode's skeleton, every
\* placeholder unchanged, and no error.
C3_NoDialectGivesSkeleton ==
    Done /\ ~HasWrapper /\ ~(mode = "order" /\ HasFeed) /\ ~HasInvoice
       => result.exc = "" /\ result.value = Template

C3_Witness ==
    /\ Done /\ ~HasWrapper /\ ~HasFeed /\ ~HasInvoice /\ mode = "order"
    /\ result.value = ORDER_TEMPLATE_JSON
(***************************************************************************)
(* Properties of the sums                                                  *)
(***************************************************************************)
\* x + y without rounding
ExactAdd(x, y) == AddExp(x, y, Min(x.exp, y.exp))
\* the exact sum of the entries i.. of vals that parse as decimals
RECURSIVE ExactSumFrom(_, _)
ExactSumFrom(vals, i) ==
    IF i > Len(vals) THEN DecZero
    ELSE IF _to_decimal(vals[i]) = NoDecimal THEN ExactSumFrom(vals, i + 1)
    ELSE ExactAdd(_to_decimal(vals[i]), ExactSumFrom(vals, i + 1))
ExactSum(vals) == ExactSumFrom(vals, 1)
\* d rounded once, half-up, to 2 fractional digits, with exactly 2 fractional
\* digits
ExactRender(d) == Format2f(Rescale(d, -2, "ROUND_HALF_UP"))
\* the entries of vals that parse as decimals
Parseable(vals) == SelectSeq(vals, LAMBDA v : _to_decimal(v) # NoDecimal)
SumDone == spc = "done"

\* C4: _sum_amounts_str(values, abs_value) is the exact decimal sum of the
\* entries that parse (the other entries contribute 0, as if removed),
\* abs_value taking its magnitude, rounded once half-up to 2 fractional digits
\* and rendered with exactly 2 fractional digits.
C4_ExactSumRoundedOnce ==
    SumDone =>
       /\ sresult.exc = ""
       /\ sresult.value =
             ExactRender(IF abs_value THEN [ExactSum(values) EXCEPT !.sign = 0]
                         ELSE ExactSum(values))
       /\ sresult = _sum_amounts_str(Parseable(values), abs_value)
(***************************************************************************)
(* Properties of the extracted fields                                      *)
(***************************************************************************)
Amount == Hdr.CollectionDetails.CollectionDetail[1].AmountCollected
\* a rendered amount without its sign
Magnitude(t) == IF t # <<>> /\ Head(t) = "-" THEN Tail(t) ELSE t
\* the elements the mappers read
WrapperEl == IF mode = "order"
             THEN ElOr(_find_first(Root, <<"MiraklOrderRefund", "Order">>),
                       _find_first(Root, <<"Order">>))
             ELSE ElOr(_find_first(Root, <<"MiraklOrderRefund", "Refund">>),
                       _find_first(Root, <<"Refund">>))
InvHeader == _invoice_header(Root)
FeedOrder == ElOr(ElOr(_find_first(Root, <<"body", "orders", "order">>),
                       _find_first(Root, <<"orders", "order">>)), Root)
\* the amounts a wrapper or invoice document carries
SourceAmounts == IF loc.dialect = "wrapper"
                 THEN <<_text(_find_first(WrapperEl, <<"amount">>))>>
                 ELSE _invoice_amounts(InvHeader)

\* C5: the absolute value is applied once, to the total: a refund
\* AmountCollected is the magnitude of the signed sum order mode produces for
\* the same amounts and is never negative; an order AmountCollected has the
\* sign of the sum.
C5_AbsAfterSum ==
    Returned /\ loc.dialect \in {"wrapper", "invoice"} =>
       /\ mode = "refund" =>
             /\ Amount = Magnitude(_sum_amounts_str(SourceAmounts, FALSE).value)
             /\ Head(Amount) # "-"
       /\ mode = "order" =>
             ((Head(Amount) = "-") <=> (ExactSum(SourceAmounts).sign = 1))

C5_Witness ==
    /\ Returned /\ mode = "refund" /\ loc.dialect = "invoice"
    /\ SourceAmounts = <<<<"1", "0", ".", "0", "0", "5">>, <<"-", "5", "0", ".", "0", "0">>>>
    /\ Amount = <<"4", "0", ".", "0", "0">>

\* the Reference entries of all line details, in document order
Refs == _find_all(InvHeader, <<"LineDetails", "LineDetail", "OrderLine",
                               "References", "Reference">>)
RefName(r) == Upper(Strip(_text(_find_first(r, <<"Name">>))))
Matching == {i \in DOMAIN Refs : RefName(Refs[i]) \in {<<"R", "O", "-", "I", "D">>, <<"M", "R", "K", "L", "_", "R", "E", "F", "U", "N", "D", "_", "I", "D">>}}
First(S) == CHOOSE i \in S : \A j \in S : i <= j
IsCreditMemo == Upper(Strip(_text(_find_first(InvHeader, <<"InvoiceType">>)))) = <<"C", "R", "E", "D", "I", "T", "_", "M", "E", "M", "O">>

\* C6: the invoice refund extraction takes refundId from Reference1 when the
\* InvoiceType, trimmed and uppercased, is CREDIT_MEMO (even when Reference1 is
\* empty), else from the Value of the first Reference of all line details
\* whose Name, trimmed and uppercased, is RO-ID or MRKL_REFUND_ID, else it is
\* the empty text.
C6_InvoiceRefundId ==
    Returned /\ mode = "refund" /\ loc.dialect = "invoice" =>
       loc.refund_id = IF IsCreditMemo THEN _text(_find_first(InvHeader, <<"Reference1">>))
                       ELSE IF Matching = {} THEN <<>>
                       ELSE _text(_find_first(Refs[First(Matching)], <<"Value">>))

C6_Witness ==
    /\ Returned /\ mode = "refund" /\ loc.dialect = "invoice"
    /\ ~IsCreditMemo
    /\ Len(_find_all(InvHeader, <<"LineDetails", "LineDetail">>)) = 2
    /\ Matching # {} /\ First(Matching) > 1
    /\ loc.refund_id = <<"R", "2">>

ShipText == _text(_find_first(InvHeader, <<"Shipment", "ActualShipmentDate">>))
InvoicedText == _text(_find_first(InvHeader, <<"DateInvoiced">>))
ExpectedTxDate == IF mode = "order" /\ ShipText # <<>> THEN ShipText ELSE InvoicedText

\* C7: for the invoice dialect the order-mode transaction date is the text of
\* Shipment/ActualShipmentDate when it is non-empty after trimming and the
\* text of DateInvoiced otherwise; the refund-mode transaction date is the
\* text of DateInvoiced whatever the shipment date.
C7_InvoiceTxDate ==
    Returned /\ loc.dialect = "invoice" =>
       /\ loc.tx_date_iso = ExpectedTxDate
       /\ Hdr.DateInvoiced = IF mode = "order" THEN _to_epoch_ms(ExpectedTxDate, localtz)
                             ELSE _to_yyyymmdd_int(ExpectedTxDate)

C7_Witness ==
    /\ Returned /\ mode = "order" /\ loc.dialect = "invoice"
    /\ ShipText # <<>> /\ InvoicedText # <<>> /\ ShipText # InvoicedText
    /\ loc.tx_date_iso = ShipText
Lines == _find_all(InvHeader, <<"LineDetails", "LineDetail">>)
\* the text at path below the first LineDetail, empty when there is none
FirstLineText(path) == IF Lines = <<>> THEN <<>> ELSE _text(_find_first(Lines[1], path))

\* C8 as stated: for the invoice dialect in order mode, orderId is the text at
\* Extn/ExtnMiraklOrderID of the first LineDetail.
C8_OrderIdAtExtn ==
    Returned /\ mode = "order" /\ loc.dialect = "invoice" =>
       loc.order_id = FirstLineText(<<"Extn", "ExtnMiraklOrderID">>)

\* C8: for the invoice dialect in order mode, orderId is the text at
\* OrderLine/Extn/ExtnMiraklOrderID of the first LineDetails/LineDetail only:
\* later LineDetail elements are never consulted, and orderId is empty when
\* the first LineDetail has no such element.
C8_OrderIdFirstLineDetail ==
    Returned /\ mode = "order" /\ loc.dialect = "invoice" =>
       /\ loc.order_id = FirstLineText(<<"OrderLine", "Extn", "ExtnMiraklOrderID">>)
       /\ Hdr.LineDetails.LineDetail[1].OrderLine.Extn.ExtnMiraklOrderID = loc.order_id

C8_Witness ==
    /\ Returned /\ mode = "order" /\ loc.dialect = "invoice"
    /\ Len(Lines) = 2
    /\ _find_first(Lines[1], <<"OrderLine", "Extn", "ExtnMiraklOrderID">>) = NoElement
    /\ _find_first(Lines[2], <<"OrderLine", "Extn", "ExtnMiraklOrderID">>) # NoElement
    /\ loc.order_id = <<>>

\* the amount texts of a feed-body order: price, shipping_price, every tax
\* amount and every shipping tax amount
FeedComponents ==
    <<_text(_find_first(FeedOrder, <<"price">>)),
      _text(_find_first(FeedOrder, <<"shipping_price">>))>>
    \o Texts(_find_all(FeedOrder, <<"order_lines", "order_line", "taxes", "tax", "amount">>))
    \o Texts(_find_all(FeedOrder, <<"order_lines", "order_line", "shipping_taxes",
                                    "shipping_tax", "amount">>))

\* C9: for the feed-body dialect, AmountCollected is price + shipping_price +
\* every tax amount + every shipping tax amount, a missing or unparseable
\* component counting as 0, added exactly and rounded once, half-up, to 2
\* fractional digits.
C9_FeedAmountExact ==
    Returned /\ loc.dialect = "feed" => Amount = ExactRender(ExactSum(FeedComponents))

SameKeys(a, b) == DOMAIN a = DOMAIN b
\* v has the key names, nesting and list lengths of the skeleton t
SameShape(v, t) ==
    /\ SameKeys(v, t)
    /\ SameKeys(v.InvoiceHeader, t.InvoiceHeader)
    /\ SameKeys(v.InvoiceHeader.Shipment, t.InvoiceHeader.Shipment)
    /\ SameKeys(v.InvoiceHeader.Order, t.InvoiceHeader.Order)
    /\ SameKeys(v.InvoiceHeader.Order.PriceInfo, t.InvoiceHeader.Order.PriceInfo)
    /\ SameKeys(v.InvoiceHeader.Order.PersonInfoBillTo, t.InvoiceHeader.Order.PersonInfoBillTo)
    /\ SameKeys(v.InvoiceHeader.LineDetails, t.InvoiceHeader.LineDetails)
    /\ Len(v.InvoiceHeader.LineDetails.LineDetail) = 1
    /\ SameKeys(v.InvoiceHeader.LineDetails.LineDetail[1],
                t.InvoiceHeader.LineDetails.LineDetail[1])
    /\ SameKeys(v.InvoiceHeader.LineDetails.LineDetail[1].OrderLine,
                t.InvoiceHeader.LineDetails.LineDetail[1].OrderLine)
    /\ SameKeys(v.InvoiceHeader.LineDetails.LineDetail[1].OrderLine.Extn,
                t.InvoiceHeader.LineDetails.LineDetail[1].OrderLine.Extn)
    /\ SameKeys(v.InvoiceHeader.CollectionDetails, t.InvoiceHeader.CollectionDetails)
    /\ Len(v.InvoiceHeader.CollectionDetails.CollectionDetail) = 1
    /\ SameKeys(v.InvoiceHeader.CollectionDetails.CollectionDetail[1],
                t.InvoiceHeader.CollectionDetails.CollectionDetail[1])
\* the refund skeleton's single-element Reference list
RefundShape(v, t) ==
    /\ SameKeys(v.InvoiceHeader.LineDetails.LineDetail[1].OrderLine.References,
                t.InvoiceHeader.LineDetails.LineDetail[1].OrderLine.References)
    /\ Len(v.InvoiceHeader.LineDetails.LineDetail[1].OrderLine.References.Reference) = 1
    /\ SameKeys(v.InvoiceHeader.LineDetails.LineDetail[1].OrderLine.References.Reference[1],
                t.InvoiceHeader.LineDetails.LineDetail[1].OrderLine.References.Reference[1])
\* the leaves no populator is specified to overwrite, in both modes
SameFrame(h, t) ==
    /\ h.Interco = t.Interco
    /\ h.Shipment.NodeType = t.Shipment.NodeType
    /\ h.Shipment._ShipNode = t.Shipment._ShipNode
    /\ h.LineDetails.TotalLines = t.LineDetails.TotalLines
    /\ h.LineDetails.LineDetail[1].OrderLine.LineType
          = t.LineDetails.LineDetail[1].OrderLine.LineType
\* the further such leaves of the order skeleton
OrderFrame(h, t) ==
    /\ h.Reference1 = t.Reference1
    /\ h.LineDetails.LineDetail[1].LineCharges = t.LineDetails.LineDetail[1].LineCharges

\* C10: every result has the key names, nesting and list lengths of the
\* mode's skeleton (LineDetail, CollectionDetail and, for refund, Reference
\* are single-element lists) and keeps the placeholder of every leaf that no
\* populator is specified to overwrite.
C10_ShapeAndFrame ==
    Returned =>
       /\ SameShape(result.value, Template)
       /\ SameFrame(Hdr, Template.InvoiceHeader)
       /\ mode = "order" => OrderFrame(Hdr, Template.InvoiceHeader)
       /\ mode = "refund" => RefundShape(result.value, Template)

C10_Witness ==
    /\ Returned /\ mode = "order" /\ loc.dialect = "wrapper"
    /\ Hdr.InvoiceNo = <<"W", "1">> /\ Hdr.InvoiceNo # Template.InvoiceHeader.InvoiceNo
    /\ Hdr.Reference1 = <<"r", "e", "f">>
    /\ Hdr.LineDetails.LineDetail[1].LineCharges.LineCharge[1].ChargeAmount = <<"1", "0", ".", "0", "0">>
(***************************************************************************)
(* Properties of the populated leaves                                      *)
(***************************************************************************)
\* a dialect matched and the call returned its result
Matched == Returned /\ loc.dialect \in {"wrapper", "feed", "invoice"}
\* the stripped text s denotes a calendar date or an instant in one of the
\* source forms: epoch milliseconds, epoch seconds, YYYYMMDD, ISO-8601
DenotesDateStripped(s) ==
    /\ s # <<>>
    /\ IF AllDigits(s) /\ Len(s) = 8
       THEN ValidDate(Num(s, 1, 4), Num(s, 5, 6), Num(s, 7, 8))
       ELSE IF AllDigits(s) /\ (Len(s) = 10 \/ Len(s) >= 13) THEN TRUE
       ELSE fromisoformat(ReplaceZ(s)).ok
DenotesDate(t) == DenotesDateStripped(Strip(t))

\* C11: in every result of a matched dialect Shipment.ActualShipmentDate
\* equals DateInvoiced; both are the epoch milliseconds (order mode) or the
\* YYYYMMDD integer (refund mode) of the extracted transaction date, and both
\* are 0 when that date is missing or does not denote a date.
C11_DatesAgree ==
    Matched =>
       /\ Hdr.Shipment.ActualShipmentDate = Hdr.DateInvoiced
       /\ Hdr.DateInvoiced = IF mode = "order" THEN _to_epoch_ms(loc.tx_date_iso, localtz)
                             ELSE _to_yyyymmdd_int(loc.tx_date_iso)
       /\ ~DenotesDate(loc.tx_date_iso) => Hdr.DateInvoiced = Zero

\* the refund id the document carries for the dialect that matched
SourceRefundId ==
    IF loc.dialect = "wrapper" THEN _text(_find_first(WrapperEl, <<"refund_id">>))
    ELSE IF IsCreditMemo THEN _text(_find_first(InvHeader, <<"Reference1">>))
    ELSE IF Matching = {} THEN <<>>
    ELSE _text(_find_first(Refs[First(Matching)], <<"Value">>))
Reference0 == Hdr.LineDetails.LineDetail[1].OrderLine.References.Reference[1]

\* C12: in every refund result of a matched dialect, Reference1 is "REFUND-"
\* followed by refundId and Reference[0] is {Name "RO-ID", Value "MRKL-REF-"
\* followed by refundId} when refundId is non-empty, and Reference1 is "" and
\* Reference[0] is {Name "RO-ID", Value ""} when it is empty; Reference1 is
\* empty exactly when Reference[0].Value is.
C12_RefundReferences ==
    Matched /\ mode = "refund" =>
       /\ Hdr.Reference1 = IF SourceRefundId # <<>> THEN <<"R", "E", "F", "U", "N", "D", "-">> \o SourceRefundId
                           ELSE <<>>
       /\ Reference0 = [Name  |-> <<"R", "O", "-", "I", "D">>,
                        Value |-> IF SourceRefundId # <<>>
                                  THEN <<"M", "R", "K", "L", "-", "R", "E", "F", "-">> \o SourceRefundId ELSE <<>>]
       /\ (Hdr.Reference1 = <<>>) <=> (Reference0.Value = <<>>)

C12_Witness ==
    /\ Matched /\ mode = "refund" /\ loc.dialect = "wrapper"
    /\ _find_first(WrapperEl, <<"refund_id">>) # NoElement
    /\ SourceRefundId = <<>>
    /\ Hdr.Reference1 = <<>> /\ Reference0.Value = <<>>

\* the identifiers and the currency the document carries for the dialect that
\* matched, in order mode
SourceOrderId ==
    IF loc.dialect = "wrapper" THEN _text(_find_first(WrapperEl, <<"order_id">>))
    ELSE IF loc.dialect = "feed" THEN _text(_find_first(FeedOrder, <<"order_id">>))
    ELSE FirstLineText(<<"OrderLine", "Extn", "ExtnMiraklOrderID">>)
SourceCustomerId ==
    IF loc.dialect = "wrapper" THEN _text(_find_first(WrapperEl, <<"customer_id">>))
    ELSE IF loc.dialect = "feed" THEN _text(_find_first(FeedOrder, <<"customer", "customer_id">>))
    ELSE _text(_find_first(InvHeader, <<"Order", "PersonInfoBillTo", "PersonInfoKey">>))
SourceCurrency ==
    IF loc.dialect = "wrapper" THEN _text(_find_first(WrapperEl, <<"currency_iso_code">>))
    ELSE IF loc.dialect = "feed" THEN _text(_find_first(FeedOrder, <<"currency_iso_code">>))
    ELSE _text(_find_first(InvHeader, <<"Order", "PriceInfo", "Currency">>))
ExtnOrderId == Hdr.LineDetails.LineDetail[1].OrderLine.Extn.ExtnMiraklOrderID

\* C13: in every order result of a matched dialect Shipment.ShipmentNo and
\* OrderLine.Extn.ExtnMiraklOrderID both equal the extracted orderId,
\* PersonInfoBillTo.PersonInfoKey equals the extracted customerId, and
\* PriceInfo.Currency equals PriceInfo.EnterpriseCurrency, the extracted
\* currency.
C13_OrderIdentifiers ==
    Matched /\ mode = "order" =>
       /\ Hdr.Shipment.ShipmentNo = SourceOrderId
       /\ ExtnOrderId = SourceOrderId
       /\ Hdr.Order.PersonInfoBillTo.PersonInfoKey = SourceCustomerId
       /\ Hdr.Order.PriceInfo.Currency = Hdr.Order.PriceInfo.EnterpriseCurrency
       /\ Hdr.Order.PriceInfo.Currency = SourceCurrency

C13_Witness ==
    /\ Matched /\ mode = "order" /\ loc.dialect = "invoice"
    /\ Hdr.Shipment.ShipmentNo = <<"O", "1">> /\ ExtnOrderId = <<"O", "1">>
    /\ Hdr.Order.PersonInfoBillTo.PersonInfoKey = <<"I", "C">>
    /\ Hdr.Order.PriceInfo.Currency = <<"G", "B", "P">>
    /\ Hdr.Order.PriceInfo.EnterpriseCurrency = <<"G", "B", "P">>

\* C14: in every refund result of a matched dialect PersonInfoBillTo.
\* PersonInfoKey is the empty string, OrderLine.Extn.ExtnMiraklOrderID is the
\* empty string and Shipment.ShipmentNo is the placeholder "SHIP123", whatever
\* customer and order identifiers the document carries.
C14_RefundIdentifiersBlank ==
    Matched /\ mode = "refund" =>
       /\ Hdr.Order.PersonInfoBillTo.PersonInfoKey = <<>>
       /\ ExtnOrderId = <<>>
       /\ Hdr.Shipment.ShipmentNo = <<"S", "H", "I", "P", "1", "2", "3">>

C14_Witness ==
    /\ Matched /\ mode = "refund" /\ loc.dialect = "wrapper"
    /\ _text(_find_first(WrapperEl, <<"customer_id">>)) = <<"W", "C">>
    /\ _text(_find_first(WrapperEl, <<"order_id">>)) = <<"W", "O">>
    /\ Hdr.Order.PersonInfoBillTo.PersonInfoKey = <<>> /\ ExtnOrderId = <<>>
    /\ Hdr.Shipment.ShipmentNo = <<"S", "H", "I", "P", "1", "2", "3">>

\* the source element of an output, by the dialect that matched
SourceEl(wrapper_path, feed_path, invoice_path) ==
    IF loc.dialect = "wrapper" THEN _find_first(WrapperEl, wrapper_path)
    ELSE IF loc.dialect = "feed" THEN _find_first(FeedOrder, feed_path)
    ELSE _find_first(InvHeader, invoice_path)
SourceOrderIdEl ==
    IF loc.dialect = "invoice"
    THEN (IF Lines = <<>> THEN NoElement
          ELSE _find_first(Lines[1], <<"OrderLine", "Extn", "ExtnMiraklOrderID">>))
    ELSE SourceEl(<<"order_id">>, <<"order_id">>, <<>>)
\* the element is missing, has no text, or has blank text
MissingOrEmpty(el) ==
    \/ el = NoElement
    \/ el.text = NoText
    \/ \A i \in DOMAIN el.text : el.text[i] \in Whitespace
\* the amount texts the matched dialect adds up
AmountTextsRead == IF loc.dialect = "feed" THEN FeedComponents ELSE SourceAmounts
\* the date text the matched dialect converts
SourceDateText ==
    IF loc.dialect = "invoice" THEN ExpectedTxDate
    ELSE _text(SourceEl(<<"transaction_date">>, <<"transaction_date">>, <<>>))
\* the amount source of a call that has run, known also when the call raised
AmountsOf(dialect) ==
    IF dialect = "feed" THEN FeedComponents
    ELSE IF dialect = "wrapper" THEN <<_text(_find_first(WrapperEl, <<"amount">>))>>
    ELSE _invoice_amounts(InvHeader)

\* C15: in every result of a matched dialect a missing or empty source field
\* gives the empty string for the string outputs read from it (InvoiceNo,
\* Currency, EnterpriseCurrency and, in order mode, PersonInfoKey, ShipmentNo,
\* ExtnMiraklOrderID) and no exception; a missing or unparseable date gives 0
\* and a missing or unparseable amount gives "0.00".
C15_MissingFieldsDegrade ==
    /\ Done /\ loc.dialect \in {"wrapper", "feed", "invoice"}
       /\ Parseable(AmountsOf(loc.dialect)) = <<>> => result.exc = ""
    /\ Matched =>
       /\ MissingOrEmpty(SourceEl(<<"transaction_number">>, <<"transaction_number">>,
                                  <<"InvoiceNo">>))
             => Hdr.InvoiceNo = <<>>
       /\ MissingOrEmpty(SourceEl(<<"currency_iso_code">>, <<"currency_iso_code">>,
                                  <<"Order", "PriceInfo", "Currency">>))
             => Hdr.Order.PriceInfo.Currency = <<>>
                /\ Hdr.Order.PriceInfo.EnterpriseCurrency = <<>>
       /\ mode = "order"
          /\ MissingOrEmpty(SourceEl(<<"customer_id">>, <<"customer", "customer_id">>,
                                     <<"Order", "PersonInfoBillTo", "PersonInfoKey">>))
             => Hdr.Order.PersonInfoBillTo.PersonInfoKey = <<>>
       /\ mode = "order" /\ MissingOrEmpty(SourceOrderIdEl)
             => Hdr.Shipment.ShipmentNo = <<>> /\ ExtnOrderId = <<>>
       /\ Parseable(AmountTextsRead) = <<>> => Amount = <<"0", ".", "0", "0">>
       /\ ~DenotesDate(SourceDateText)
             => Hdr.DateInvoiced = Zero /\ Hdr.Shipment.ActualShipmentDate = Zero

(***************************************************************************)
(* Properties of interleaved calls                                         *)
(***************************************************************************)
\* what a call with the input of caller c returns or raises
Expected(c) == map_mirakl_xml_to_template(calls[c].text, calls[c].mode, localtz)
\* caller c holds a mapping it was returned and has not changed
Holds(c) == calls[c].pc = "returned" /\ ~calls[c].dirty

\* C16: over every interleaving of calls, the mapping a call returns (or the
\* exception it raises) is the one its own (xml_text, mode) determines, two
\* calls with the same input return equal mappings, every call works on a
\* dict object of its own that starts as the mode's skeleton, and a caller
\* changing the mapping it was returned changes no other call's mapping.
C16_CallsIndependent ==
    \A c \in Callers :
       /\ Holds(c) => heap[calls[c].ref] = Expected(c).value
       /\ calls[c].pc = "raised" => calls[c].exc = Expected(c).exc
       /\ calls[c].pc = "loaded" => heap[calls[c].ref] = TemplateOf(calls[c].mode)
       /\ \A d \in Callers \ {c} :
             /\ calls[c].ref # 0 => calls[d].ref # calls[c].ref
             /\ Holds(c) /\ Holds(d) /\ calls[c].text = calls[d].text
                /\ calls[c].mode = calls[d].mode
                   => heap[calls[c].ref] = heap[calls[d].ref]

\* caller 1 changed its mapping; caller 2 then made the same call, with no
\* dialect matching, and holds the untouched skeleton
C16_Witness ==
    /\ calls[1].pc = "returned" /\ calls[1].dirty
    /\ Holds(2) /\ calls[2].ref > calls[1].ref
    /\ calls[2].text = calls[1].text /\ calls[2].mode = calls[1].mode
    /\ calls[2].text = Doc(El("doc", NoText, <<>>)) /\ calls[2].mode = "order"
    /\ heap[calls[1].ref].InvoiceHeader.InvoiceNo = <<"X">>
    /\ heap[calls[2].ref] = ORDER_TEMPLATE_JSON

(***************************************************************************)
(* Properties of the scan loop                                             *)
(***************************************************************************)
\* the payloads a run has to write, in the order of the loops: a payload of
\* hit ri of file fi for filter ki, whatever the mapper does with it
RunFilters == BuildFilters(cfg.filters)
PayloadsOf(fi, ri) == as_list(files[fi].hits[ri].AuditAttachmentsData)
ItemsOfHit(flts, fi, ri) ==
    LET pls == PayloadsOf(fi, ri)
    IN  Concat([ki \in DOMAIN flts |->
                   IF record_matches(files[fi].hits[ri], flts[ki].want_desc_l,
                                     flts[ki].want_name_l)
                   THEN [pi \in DOMAIN pls |->
                            [fi |-> fi, ri |-> ri, ki |-> ki, pi |-> pi]]
                   ELSE <<>>])
ItemsOfFile(flts, fi) ==
    IF files[fi].kind = "ok"
    THEN Concat([ri \in DOMAIN files[fi].hits |-> ItemsOfHit(flts, fi, ri)])
    ELSE <<>>
ItemsWith(flts) == Concat([fi \in DOMAIN files |-> ItemsOfFile(flts, fi)])
Items == ItemsWith(RunFilters)
\* the loops are past the item
Passed(it) ==
    CASE scan.pc = "file"    -> it.fi < scan.fi
      [] scan.pc = "record"  -> it.fi < scan.fi \/ (it.fi = scan.fi /\ it.ri < scan.ri)
      [] scan.pc = "filter"  -> \/ it.fi < scan.fi
                                \/ it.fi = scan.fi /\ it.ri < scan.ri
                                \/ it.fi = scan.fi /\ it.ri = scan.ri /\ it.ki < scan.ki
      [] scan.pc = "payload" -> \/ it.fi < scan.fi
                                \/ it.fi = scan.fi /\ it.ri < scan.ri
                                \/ it.fi = scan.fi /\ it.ri = scan.ri /\ it.ki < scan.ki
                                \/ it.fi = scan.fi /\ it.ri = scan.ri /\ it.ki = scan.ki
                                   /\ it.pi < scan.pi
      [] scan.pc = "done"    -> TRUE
      [] OTHER               -> FALSE
\* what the file of an item holds: the mapping, or the warning line and the
\* payload when the mapper raises (m is what the mapper returns or raises), or
\* the payload for the other folders
Mapped(flt, pl) ==
    map_mirakl_xml_to_template(
        pl, IF flt.folder_key = <<"m", "i", "r", "a", "k", "l", "-", "o", "r", "d", "e", "r">> THEN "order" ELSE "refund", localtz)
IsMirakl(flt) == flt.folder_key \in {<<"m", "i", "r", "a", "k", "l", "-", "o", "r", "d", "e", "r">>, <<"m", "i", "r", "a", "k", "l", "-", "r", "e", "f", "u", "n", "d">>}
ContentOf(flt, pl, m) ==
    IF ~IsMirakl(flt) THEN RawFile(pl)
    ELSE IF m.exc = "" THEN JsonFile(m.value)
    ELSE WarningFile(m.exc, pl)
\* the paths that existed when the i-th file of the run was written
ExistedAt(i) ==
    (DOMAIN fs \ {stats.written_files[j] : j \in i..Len(stats.written_files)})
\* item it was written to path as the loop body does without a failure
WrittenAs(it, flt, pl, path, existed) ==
    LET m == Mapped(flt, pl)
    IN  /\ Passed(it)
        /\ path = make_unique(existed, OutPath(flt, files[it.fi].hits[it.ri]))
        /\ fs[path] = ContentOf(flt, pl, m)
        /\ IsMirakl(flt) /\ m.exc # "" => fs[path] = WarningFile(m.exc, pl)

ValidDatesIn(s) ==
    {i \in 1..Len(s) : DateShapeAt(s, i) /\ Strptime(SubSeq(s, i, i + 9))}
Last(ps) == CHOOSE i \in ps : \A j \in ps : j <= i
Answered == req.pc \in {"dated", "responded"}

\* C18: the date the endpoint takes from the path segment is the last
\* substring of the form YYYY-MM-DD that is a calendar date; the response is
\* 400 exactly when the segment has no such substring, and then the scan is
\* not run.
C18_LastValidDate ==
    Answered =>
        LET s  == req.anything
            ps == ValidDatesIn(s)
        IN  /\ req.status = 400 <=> ps = {}
            /\ ps # {} => SubSeq(req.date, 1, 10) = SubSeq(s, Last(ps), Last(ps) + 9)
            /\ req.status = 400 => ~req.ran

(***************************************************************************)
(* Properties of the detection of the dialect                              *)
(***************************************************************************)
\* the element the detection is to select: the first one at the first of
\* the paths that leads to an element
Selected(els) == els[1]
\* the result carries the transaction number (the invoice number for an
\* InvoiceHeader) of element el
PopulatedFrom(el, field) ==
    result.exc = "" => Hdr.InvoiceNo = _text(_find_first(el, field))

\* C19: the dialect is chosen by the existence of the element alone, whatever
\* its content: a wrapper element for the mode selects the wrapper extractor
\* on it; failing that, in order mode a feed-body order selects the feed-body
\* extractor on it; failing that, an InvoiceHeader selects the invoice
\* extractor on it, and the result is populated from that element.
C19_DetectionByExistence ==
    Done =>
       /\ HasWrapper =>
             /\ loc.dialect = "wrapper"
             /\ PopulatedFrom(Selected(WrapperEls), <<"transaction_number">>)
       /\ ~HasWrapper /\ mode = "order" /\ HasFeed =>
             /\ loc.dialect = "feed"
             /\ PopulatedFrom(Selected(FeedEls), <<"transaction_number">>)
       /\ ~HasWrapper /\ ~(mode = "order" /\ HasFeed) /\ HasInvoice =>
             /\ loc.dialect = "invoice"
             /\ PopulatedFrom(Selected(InvoiceEls), <<"InvoiceNo">>)

(***************************************************************************)
(* Properties of _to_decimal                                               *)
(***************************************************************************)
Digits(t) == \A i \in DOMAIN t : IsDigit(t[i])
RightOf(t, i) == SubSeq(t, i + 1, Len(t))
LeftOf(t, i) == SubSeq(t, 1, i - 1)
Unsigned(t) == IF t # <<>> /\ t[1] \in {"-", "+"} THEN Tail(t) ELSE t
\* digits[.digits]
StrictMantissa(m) ==
    \/ m # <<>> /\ Digits(m)
    \/ \E p \in 2..(Len(m) - 1) :
          m[p] = "." /\ Digits(LeftOf(m, p)) /\ Digits(RightOf(m, p))
\* [digits][.]digits: as the strict one, or a point followed by digits
LooseMantissa(m) ==
    \/ StrictMantissa(m)
    \/ Len(m) >= 2 /\ m[1] = "." /\ Digits(Tail(m))
\* e[-+]digits, the e in either case
Exponent(e) ==
    /\ e # <<>> /\ e[1] \in {"e", "E"}
    /\ Unsigned(Tail(e)) # <<>> /\ Digits(Unsigned(Tail(e)))
\* the place where the exponent of t starts (past the end when it has none)
ExpAt(t) == IF \E i \in DOMAIN t : t[i] \in {"e", "E"}
            THEN CHOOSE i \in DOMAIN t : t[i] \in {"e", "E"} /\ \A j \in 1..(i - 1) : t[j] \notin {"e", "E"}
            ELSE Len(t) + 1
MantissaOf(t) == LeftOf(Unsigned(t), ExpAt(Unsigned(t)))
ExponentOf(t) == RightOf(Unsigned(t), ExpAt(Unsigned(t)) - 1)
StrictNumber(t) ==
    StrictMantissa(MantissaOf(t)) /\ (ExponentOf(t) = <<>> \/ Exponent(ExponentOf(t)))
LooseNumber(t) ==
    LooseMantissa(MantissaOf(t)) /\ (ExponentOf(t) = <<>> \/ Exponent(ExponentOf(t)))
\* the text without the white space around it
Trimmed(t) ==
    IF \A i \in DOMAIN t : t[i] \in Whitespace THEN <<>>
    ELSE SubSeq(t, CHOOSE i \in DOMAIN t : t[i] \notin Whitespace /\ \A j \in 1..(i - 1) : t[j] \in Whitespace,
                   CHOOSE i \in DOMAIN t : t[i] \notin Whitespace /\ \A j \in (i + 1)..Len(t) : t[j] \in Whitespace)
\* the number a text of digits denotes
RECURSIVE NatOf(_)
NatOf(t) == IF t = <<>> THEN 0 ELSE 10 * NatOf(LeftOf(t, Len(t))) + DigitVal(t[Len(t)])
\* the digits of the mantissa m, and how many of them follow the point
MantissaDigits(m) == SelectSeq(m, IsDigit)
FractionLen(m) == IF \E p \in DOMAIN m : m[p] = "."
                  THEN Len(m) - (CHOOSE p \in DOMAIN m : m[p] = ".") ELSE 0
ExponentValue(e) ==
    IF e = <<>> THEN 0
    ELSE (IF Tail(e)[1] = "-" THEN -1 ELSE 1) * NatOf(Unsigned(Tail(e)))
\* decimal d is exactly the number text t denotes, with the sign of t and
\* as many fractional digits as t has
Denotes(d, t) ==
    /\ d # NoDecimal
    /\ d.sign = (IF t[1] = "-" THEN 1 ELSE 0)
    /\ DigitsNat(d.int) = NatOf(MantissaDigits(MantissaOf(t)))
    /\ d.exp = ExponentValue(ExponentOf(t)) - FractionLen(MantissaOf(t))
DecDone == dec.pc = "done"

DateDone == datecall.pc = "done"
DateText == Strip(datecall.s)
IsDate8(s) == ValidDate(Num(s, 1, 4), Num(s, 5, 6), Num(s, 7, 8))
\* the ISO-8601 text: its fields, and whether it has a Z or a numeric offset
IsoOf(s) == fromisoformat(ReplaceZ(s))
Aware(s) == IsoOf(s).ok /\ IsoOf(s).tz
\* the seconds from the epoch to the instant an ISO-8601 text with a zone
\* denotes, and the UTC date of that instant
IsoInstant(f) == DaysFromCivil(f.y, f.m, f.d) * 86400 + f.sod - f.off * 60
IsoUtcYmd(f) == YmdOf(CivilFromDays(IsoInstant(f) \div 86400))

\* C21: _to_yyyymmdd_int gives the UTC calendar date, as YYYYMMDD, of the
\* instant the text denotes: of the milliseconds of 13 or more digits, of the
\* seconds of 10 digits, the 8 digits of a date unchanged, of an ISO-8601
\* text with Z or an offset; and 0 for a text that denotes no valid date.
C21_UtcDate ==
    DateDone =>
        LET s == DateText
        IN  IF s = <<>> THEN datecall.ymd = Zero
            ELSE IF AllDigits(s)
            THEN datecall.ymd =
                    (IF Len(s) >= 13 THEN UtcYmd(SubSeq(TextDigits(s), 1, 10))
                     ELSE IF Len(s) = 10 THEN UtcYmd(TextDigits(s))
                     ELSE IF Len(s) = 8 /\ IsDate8(s) THEN PyInt(FALSE, TextDigits(s))
                     ELSE Zero)
            ELSE IF ~IsoOf(s).ok THEN datecall.ymd = Zero
            ELSE Aware(s) => datecall.ymd = IsoUtcYmd(IsoOf(s))

\* the milliseconds from the epoch to midnight UTC of an 8-digit date
MidnightMs(s) == EpochMs(DaysFromCivil(Num(s, 1, 4), Num(s, 5, 6), Num(s, 7, 8)), 0, 0)
\* the milliseconds from the epoch to the instant of an ISO-8601 text with
\* a zone
IsoInstantMs(f) == EpochMs(DaysFromCivil(f.y, f.m, f.d), f.sod, f.off)

\* C22: _to_epoch_ms selects the form by the shape of the text: 13 or more
\* digits give the integer of the first 13, 10 digits that number times
\* 1000, 8 digits the milliseconds of midnight UTC of that date; any other
\* text is read as ISO-8601, Z being UTC; a text that fails its form (empty,
\* 8 digits that are no date, digits of another length, no ISO-8601 text)
\* gives 0.
C22_EpochForms ==
    DateDone =>
        LET s == DateText
        IN  IF s = <<>> THEN datecall.ms = Zero
            ELSE IF AllDigits(s)
            THEN datecall.ms =
                    (IF Len(s) >= 13 THEN PyInt(FALSE, SubSeq(TextDigits(s), 1, 13))
                     ELSE IF Len(s) = 10 THEN PyInt(FALSE, TextDigits(s) \o <<0, 0, 0>>)
                     ELSE IF Len(s) = 8 /\ IsDate8(s) THEN MidnightMs(s)
                     ELSE Zero)
            ELSE IF ~IsoOf(s).ok THEN datecall.ms = Zero
            ELSE Aware(s) => datecall.ms = IsoInstantMs(IsoOf(s))

(***************************************************************************)
(* Properties of the locator                                               *)
(***************************************************************************)
FindDone == findcall.pc = "done"
\* the names a path text consists of: its greatest runs of characters other
\* than the slash, white space around the text apart
RunStarts(t) == {i \in DOMAIN t : t[i] # "/" /\ (i = 1 \/ t[i - 1] = "/")}
RunEnd(t, i) == CHOOSE j \in i..Len(t) :
                   /\ \A k \in i..j : t[k] # "/"
                   /\ (j = Len(t) \/ t[j + 1] = "/")
NthStart(t, n) == CHOOSE i \in RunStarts(t) :
                     Cardinality({j \in RunStarts(t) : j < i}) = n - 1
Runs(t) == [n \in 1..Cardinality(RunStarts(t)) |->
               SubSeq(t, NthStart(t, n), RunEnd(t, NthStart(t, n)))]
NamesOf(path) == Runs(Trimmed(path))
\* the elements reached from el by direct children named, namespace apart,
\* by the successive names, in document order
RECURSIVE Reach(_, _)
Reach(el, names) ==
    IF names = <<>> THEN <<el>>
    ELSE Concat([i \in DOMAIN el.kids |->
                    IF el.kids[i].tag.name = Head(names)
                    THEN Reach(el.kids[i], Tail(names)) ELSE <<>>])

\* C23: _find_all gives, in document order, exactly the elements reached
\* from the root by a chain of direct children with the local names of the
\* successive segments, hence nothing once a segment matches nothing;
\* _find_first gives none exactly when _find_all gives the empty list, and
\* otherwise its first element; only the names between the slashes count, so
\* leading and trailing slashes change nothing.
C23_Locator ==
    FindDone =>
        /\ findcall.all = Reach(findcall.root, NamesOf(findcall.path))
        /\ findcall.first = NoElement <=> findcall.all = <<>>
        /\ findcall.all # <<>> => findcall.first = findcall.all[1]

\* a path with a leading and a trailing slash finds elements under two
\* children of the root, one of them with a namespace
C23_Witness ==
    /\ FindDone
    /\ findcall.path = <<"/", "a", "/", "b", "/">>
    /\ Len(findcall.all) >= 3
    /\ \E i, j \in DOMAIN findcall.all :
          /\ i < j
          /\ findcall.all[i].text[1] < findcall.all[j].text[1]
          /\ findcall.all[i].tag.ns # ""
    /\ findcall.first = findcall.all[1]

(***************************************************************************)
(* Properties of the filters (src/main.py, record_matches and process)     *)
(***************************************************************************)
\* two texts are equal up to the case of their letters and the whitespace
\* around them
SameText(a, b) ==
    LET x == Trimmed(a)
        y == Trimmed(b)
    IN  /\ Len(x) = Len(y)
        /\ \A i \in DOMAIN x :
              \/ x[i] = y[i]
              \/ \E k \in DOMAIN LowerChars :
                    {x[i], y[i]} = {LowerChars[k], UpperChars[k]}
\* the values of a field of a record: none, one, or those of a list
ValuesOf(v) ==
    IF v = JNull THEN {}
    ELSE IF "list" \in DOMAIN v THEN {v.list[i].str : i \in DOMAIN v.list}
    ELSE {v.str}
\* a field of a configured filter names a text
Named(v) == v # JNull /\ Trimmed(v.str) # <<>>
\* the record matches the configured filter
Matches(src, f) ==
    /\ Named(f.event_description)
    /\ \E d \in ValuesOf(src.EventDescription) : SameText(d, f.event_description.str)
    /\ Named(f.event_name) =>
          \E n \in ValuesOf(src.EventName) : SameText(n, f.event_name.str)
\* the configured filters that have an event description
Kept == SelectSeq(cfg.filters, LAMBDA f : Named(f.event_description))

\* C24: the filters the scan tries on a record are the configured filters
\* that have an event description, in their order: a filter without one is
\* dropped and is tried on no record.  A record matches a filter (its
\* payloads are written next) exactly when the event description of the
\* filter equals, up to case and surrounding whitespace, one of the
\* EventDescription values of the record and, if the filter names an event
\* name, that name equals in the same way one of its EventName values.
C24_RecordMatches ==
    [][scan.pc = "filter" /\ scan.ki <= Len(scan.filters) =>
          /\ Len(scan.filters) = Len(Kept)
          /\ scan.filters[scan.ki] = FilterOf(Kept[scan.ki])
          /\ scan'.pc = "payload"
                <=> Matches(files[scan.fi].hits[scan.ri], Kept[scan.ki])]_vars

\* a record with a list of event descriptions has matched a filter that
\* names an event name in another case, a filter was dropped, and the run
\* has tried filters on a record whose event description is blank
C24_Witness ==
    /\ scan.pc = "payload"
    /\ scan.filters[scan.ki].want_name_l = <<"n">>
    /\ files[scan.fi].hits[scan.ri].EventName = JStr(<<"N">>)
    /\ "list" \in DOMAIN files[scan.fi].hits[scan.ri].EventDescription
    /\ Len(scan.filters) < Len(cfg.filters)
    /\ \E fi \in DOMAIN files : \E ri \in DOMAIN files[fi].hits :
          /\ files[fi].hits[ri].EventDescription = JStr(<<" ">>)
          /\ files[fi].hits[ri].AuditAttachmentsData # JNull

(***************************************************************************)
(* Properties of the output files (src/main.py, make_unique and process)   *)
(***************************************************************************)
\* the name make_unique tries k-th: the stem, "_", k and the suffix
Numbered(path, k) ==
    PathOf(path.dir, Stem(path.name) \o <<"_">> \o IntText(k) \o Suffix(path.name))
\* the sum of the per-folder hit counts
RECURSIVE FolderSum(_)
FolderSum(folders) ==
    IF folders = {} THEN 0
    ELSE LET f == CHOOSE x \in folders : TRUE
         IN  per_folder_hits[f] + FolderSum(folders \ {f})
\* the files of the output root that this run created
Created == {q \in DOMAIN fs : fs[q] # OldFile}
\* the counters agree
CountersAgree ==
    /\ stats.hits = Len(stats.written_files)
    /\ stats.hits = FolderSum(DOMAIN per_folder_hits)
    /\ stats.hits = Cardinality(Created)
    /\ Created = Range(stats.written_files)
\* a step of the scan loop leaves every file that exists as it is
NothingOverwritten ==
    scan.pc # "start" =>
        \A q \in DOMAIN fs : q \in DOMAIN fs' /\ fs'[q] = fs[q]
\* a step that writes a payload writes it to the path make_unique describes,
\* which did not exist
WrittenToFreePath ==
    stats'.hits # stats.hits =>
        LET want == OutPath(scan.filters[scan.ki], files[scan.fi].hits[scan.ri])
            path == stats'.written_files[Len(stats'.written_files)]
        IN  /\ stats'.hits = stats.hits + 1
            /\ stats'.written_files = Append(stats.written_files, path)
            /\ path \notin DOMAIN fs
            /\ DOMAIN fs' = DOMAIN fs \cup {path}
            /\ want \notin DOMAIN fs => path = want
            /\ want \in DOMAIN fs =>
                  \E k \in 2..(Cardinality(DOMAIN fs) + 2) :
                     /\ path = Numbered(want, k)
                     /\ \A j \in 2..(k - 1) : Numbered(want, j) \in DOMAIN fs

\* C25: across a run of the scan loop every payload is written to a path
\* that did not exist just before the write: the requested path if it is
\* free, else the first free name with suffix _2, _3, ...; so no file written
\* earlier in the run or present before it is overwritten, and after every
\* payload, hence at the end, stats.hits equals the number of entries of
\* written_files, the sum of the per-folder hit counts and the number of
\* distinct files the run created.
C25_NoOverwrite ==
    /\ [](scan.pc # "idle" /\ scan.pc # "start" => CountersAgree)
    /\ [][NothingOverwritten /\ WrittenToFreePath]_vars

\* the run is over; a payload was written with suffix _3 beside two files
\* of an earlier run, which are as they were, and another with suffix _2
\* beside a file written earlier in the run
C25_Witness ==
    /\ scan.pc = "done"
    /\ \E q \in DOMAIN fs :
          /\ fs[q] = OldFile
          /\ Numbered(q, 2) \in DOMAIN fs /\ fs[Numbered(q, 2)] = OldFile
          /\ Numbered(q, 3) \in Created
    /\ \E i, j \in DOMAIN stats.written_files :
          i < j /\ stats.written_files[j] = Numbered(stats.written_files[i], 2)
    /\ Cardinality(DOMAIN per_folder_hits) >= 2

(***************************************************************************)
(* Properties of the bucket bridges (src/main.py, src/gcs_utils.py)        *)
(***************************************************************************)
\* the calls that download, that run the processing function, that upload
Downloads == {"rsync_down", "read_text", "download_to_dir"}
Uploads == {"rsync_up", "upload_dir"}
StepOf(call) ==
    IF call \in Downloads THEN 1 ELSE IF call = "process_fn" THEN 2
    ELSE IF call \in Uploads THEN 3 ELSE 0
\* the downloads, the call of the processing function and the uploads made
StepsMade == SelectSeq(gcs.issued, LAMBDA call : StepOf(call) # 0)
\* download, then process, then upload; an upload only after the processing
\* function has returned
InOrder ==
    /\ \A i, j \in DOMAIN StepsMade : i < j => StepOf(StepsMade[i]) <= StepOf(StepsMade[j])
    /\ (\E i \in DOMAIN StepsMade : StepsMade[i] \in Uploads) =>
          /\ gcs.processed = "returned"
          /\ \E i \in DOMAIN StepsMade : StepsMade[i] = "process_fn"
\* ROOT_PATH is unset, empty or does not begin with gs://
NoRootUri == gcs.root_uri = NoText \/ ~StartsWithGs(gcs.root_uri)
NothingDownloaded == \A i \in DOMAIN gcs.issued : gcs.issued[i] \notin Downloads
NothingUploaded == \A i \in DOMAIN gcs.issued : gcs.issued[i] \notin Uploads
\* the run has failed before its upload: in the download, for want of
\* config.json, or in the processing function
FailedBeforeUpload ==
    gcs.pc = "raised" /\ gcs.at \in {"download", "config", "process"}

\* C26: a bridge downloads, then runs the processing function, then uploads,
\* and uploads only after the processing function has returned normally;
\* with ROOT_PATH unset or not a gs:// URI nothing is downloaded; when the
\* download fails, config.json is missing after it, or the processing
\* function raises, nothing is uploaded and the objects below the remote
\* prefix are as they were.
C26_BridgeOrder ==
    /\ InOrder
    /\ gcs.fn = "run_with_gcs" /\ NoRootUri => NothingDownloaded
    /\ FailedBeforeUpload => NothingUploaded /\ gcs.remote = gcs.remote0

====
